---- MODULE Spec2Model ----
(***************************************************************************)
(* A model of the DIMA-OntoToolkit core: the JSON file cache               *)
(* (dima_otk/utils/cache.py), the fuzzy component identity index           *)
(* (assign_component_id / get_arguments_from_motifs) and the per-article   *)
(* pipeline (DimaOTK.run).                                                 *)
(*                                                                         *)
(* Each part has its own specification over the shared variables; the      *)
(* variables of the other parts stay at their idle values.                 *)
(*   SpecCache  sequential load_or_compute_cache calls                     *)
(*   SpecConc   two workers inside load_or_compute_cache on one key        *)
(*   SpecIndex  assign_component_id calls of one article run               *)
(*   SpecRun    DimaOTK.run on one article, several times                  *)
(*   SpecMerge  merges into one cumulative store file                      *)
(*   SpecMergeConc  two merges into the store at the same time             *)
(*   SpecFragment   the graph fragments built from one article             *)
(*   SpecSave   load_or_compute_cache calls whose save may fail            *)
(*   SpecProcess    DimaOTK objects and runs on several articles           *)
(***************************************************************************)
EXTENDS Integers, Sequences, FiniteSets, TLC

VARIABLES
    \* ---- the cache directory on disk (utils/cache.py) ----
    files,      \* (category, key) -> Absent or the text of the entry file
    dirs,       \* the category directories that exist under output/
    \* ---- sequential calls of load_or_compute_cache ----
    pre,        \* files as they were when the last call started
    last,       \* the last call: key, how it ended, what it returned
    nCalls,     \* per key: calls made
    nComputes,  \* per key: calls of compute_fn
    nOk,        \* per key: calls of compute_fn that returned
    rets,       \* per key: the payloads returned to callers so far
    \* ---- two workers inside load_or_compute_cache ----
    wpc,        \* worker -> its position in load_or_compute_cache
    wcached,    \* worker -> what load_json_cache gave it
    wresult,    \* worker -> what compute_fn gave it
    \* ---- the component identity index of one get_arguments_from_motifs ----
    cmap,       \* kind -> the recorded (text, id) pairs, in insertion order
    counters,   \* the counters dict: premise, development, conclusion,
                \* argument
    prevCmap,   \* cmap when the last assign_component_id call started
    prevCounters, \* counters when the last call started
    call,       \* the last assign_component_id call and what it returned
    hist,       \* every assign_component_id call of the run, in order
    \* ---- DimaOTK.run on one article ----
    run,        \* the number of run() calls started so far
    rpc,        \* the statement of run() that is executed next
    ri,         \* the motif the current per-motif loop is at
    stages,     \* the stages the current run has completed, in order
    ext,        \* the calls of call_gpt the current run has made
    failed,     \* an extraction call of the current run has failed
    error,      \* the exception that ended the current run, "" if none
    warm,       \* every cache entry existed when the current run started
    prevWarm,   \* warm, of the run before
    headline,   \* run()'s local headline
    margs,      \* run()'s local motif_argument_data
    agents,     \* run()'s local agents
    quotes,     \* run()'s local quotes
    processed,  \* run()'s local processed_article
    prevProcessed, \* processed_article of the run before
    biases,     \* run()'s local biases
    prevBiases, \* biases of the run before
    processedFile, \* output/semantic_analysis/article_processed_<id>.json
    biasesFile, \* output/bias_analysis/article_biases_<id>.json
    merged,     \* the cumulative stores the current run has merged into
    \* ---- a cumulative store file and the merges into it ----
    store,      \* the store file (a *_full.owl)
    mstart,     \* the store file before the first merge
    mpre,       \* the store file when the last merge started
    mlast,      \* the last merge: function, fragment file, how it ended
    mhist,      \* the merges so far, in order
    \* ---- two merges into the store at the same time ----
    mpc,        \* worker -> its position in the merge function
    msrc,       \* worker -> the fragment it merges
    mmain,      \* worker -> its local g_main
    mseen,      \* worker -> where the other worker was when it read
    mfn,        \* worker -> the merge function it runs
    \* ---- the graph fragments of one article ----
    fin,        \* what the extractions returned for the article
    fart,       \* the processed article (ids assigned)
    frows,      \* the bias rows of the article
    frag,       \* the fragment of convert_semantic_analysis_article
    dfrag,      \* the fragment of convert_dima_analysis_article
    fpc,        \* the next step of the conversion
    \* ---- one process: DimaOTK objects and their runs on several articles ----
    ppredef,    \* PREDEFINED_ONTOLOGIES[INFL_IRI]: "" if unset, "tbox", or
                \* the article id whose temporary ABox file it names
    ptmp,       \* article id -> output/owl_influence-mini/tmp/<id>_abox_temp.owl
    pfull,      \* output/owl_influence-mini/influence-mini_full.owl
    pdima,      \* output/owl_dima/dima_full.owl
    phist,      \* the run() calls of the process so far, in order
    psteps      \* constructions and runs made so far

cacheVars == <<files, dirs>>
seqVars   == <<pre, last, nCalls, nComputes, nOk, rets>>
concVars  == <<wpc, wcached, wresult>>
indexVars == <<cmap, counters, prevCmap, prevCounters, call, hist>>
runVars   == <<run, rpc, ri, stages, ext, failed, error, warm, prevWarm,
               headline, margs, agents, quotes, processed, prevProcessed,
               biases, prevBiases, processedFile, biasesFile, merged>>
mergeVars == <<store, mstart, mpre, mlast, mhist>>
mconcVars == <<mpc, msrc, mmain, mseen, mfn>>
fragVars  == <<fin, fart, frows, frag, dfrag, fpc>>
procVars  == <<ppredef, ptmp, pfull, pdima, phist, psteps>>
graphVars == <<store, mstart, mpre, mlast, mhist, mpc, msrc, mmain, mseen,
               mfn, fin, fart, frows, frag, dfrag, fpc>>
vars      == <<files, dirs, pre, last, nCalls, nComputes, nOk, rets,
               wpc, wcached, wresult,
               cmap, counters, prevCmap, prevCounters, call, hist,
               run, rpc, ri, stages, ext, failed, error, warm, prevWarm,
               headline, margs, agents, quotes, processed, prevProcessed,
               biases, prevBiases, processedFile, biasesFile, merged,
               store, mstart, mpre, mlast, mhist, mpc, msrc, mmain, mseen,
               mfn, fin, fart, frows, frag, dfrag, fpc,
               ppredef, ptmp, pfull, pdima, phist, psteps>>

(***************************************************************************)
(* JSON payloads and their text on disk                                    *)
(***************************************************************************)

\* Bounds of the payloads compute_fn may return.
MaxItems == 1
MaxVal   == 1

\* Values that are no payload, in the payloads' shape.
None        == [type |-> "None", items |-> <<>>]        \* Python's None
DecodeError == [type |-> "JSONDecodeError", items |-> <<>>]
Raise       == [type |-> "raise", items |-> <<>>]       \* compute_fn raises

\* No file at the path (no text of a file holds this token).
Absent == <<[b |-> "absent"]>>

ItemSeqs == UNION {[1..n -> 1..MaxVal] : n \in 0..MaxItems}

\* A JSON container: a dict or a list with its members (members are opaque
\* numbers).  The empty dict and the empty list are payloads too.
Payloads == [type : {"dict", "list"}, items : ItemSeqs]

\* The tokens of a JSON text: a bracket [b |-> ...] or a member [m |-> ...].
Open(t)  == [b |-> IF t = "dict" THEN "{" ELSE "["]
Close(t) == [b |-> IF t = "dict" THEN "}" ELSE "]"]

\* json.dump(obj, f, indent=2, ensure_ascii=False): the text of the file,
\* token by token (white space left out).
Dump(p) == <<Open(p.type)>>
           \o [i \in 1..Len(p.items) |-> [m |-> p.items[i]]]
           \o <<Close(p.type)>>

\* json.load(f): the value of a complete document, JSONDecodeError for
\* anything else (an empty or cut-off file included).
Load(text) ==
    IF /\ Len(text) >= 2
       /\ \E t \in {"dict", "list"} :
             /\ text[1] = Open(t)
             /\ text[Len(text)] = Close(t)
       /\ \A i \in 2..(Len(text) - 1) : DOMAIN text[i] = {"m"}
    THEN [type  |-> IF text[1] = Open("dict") THEN "dict" ELSE "list",
          items |-> [i \in 1..(Len(text) - 2) |-> text[i + 1].m]]
    ELSE DecodeError

\* bool(x) of what load_json_cache returns: None and empty containers are
\* falsy.
Truthy(v) == v.type \in {"dict", "list"} /\ Len(v.items) > 0

(***************************************************************************)
(* utils/cache.py                                                          *)
(***************************************************************************)

Categories == {"arguments_cache", "quotes_cache"}
Keys == {<<"arguments_cache", "a">>, <<"quotes_cache", "a">>}

\* get_cache_path: mkdir(parents=True, exist_ok=True) of the category.
GetCachePath(ds, k) == ds \cup {k[1]}

\* load_json_cache: None when the file is absent, json.load of it otherwise
\* (which raises on a malformed file).
LoadJsonCache_Repair(fs, k) ==
    IF fs[k] = Absent \/ Load(fs[k]) = DecodeError THEN None ELSE Load(fs[k])
LoadJsonCache(fs, k) == IF fs[k] = Absent THEN None ELSE Load(fs[k])

\* save_json_cache: the file holds the dumped object afterwards.
SaveJsonCache(fs, k, obj) == [fs EXCEPT ![k] = Dump(obj)]

CacheHit_Never(cached) == FALSE

\* `if cached:` of load_or_compute_cache.
CacheHit(cached) == Truthy(cached)

\* What the files are after compute_fn raised at line 68: the exception
\* leaves load_or_compute_cache before save_json_cache is reached.
FilesAfterRaise_SaveFirst(fs, k) == [fs EXCEPT ![k] = <<>>]
FilesAfterRaise(fs, k) == fs

Bump(f, k) == [f EXCEPT ![k] = @ + 1]

\* Bound on the number of calls in one behaviour.
MaxCalls == 3

TotalCalls == nCalls[<<"arguments_cache", "a">>]
              + nCalls[<<"quotes_cache", "a">>]

\* load_or_compute_cache(k[2], k[1], compute_fn) on the files fs, where `out`
\* is what compute_fn does if it is called (return a payload, or raise): how
\* the call ends, what it returns, the files afterwards, and whether
\* compute_fn was called.
LoadOrCompute(fs, k, out) ==
    LET cached == LoadJsonCache(fs, k) IN
    IF cached.type = DecodeError.type
    THEN [status |-> "decode_error", value |-> None, files |-> fs,
          computed |-> FALSE]
    ELSE IF CacheHit(cached)
    THEN [status |-> "returned", value |-> cached, files |-> fs,
          computed |-> FALSE]
    ELSE IF out.type = Raise.type
    THEN [status |-> "raised", value |-> None,
          files |-> FilesAfterRaise(fs, k), computed |-> TRUE]
    ELSE [status |-> "returned", value |-> out,
          files |-> SaveJsonCache(fs, k, out), computed |-> TRUE]

\* One whole call of load_or_compute_cache on the key k.
LoadOrComputeCache(k, out) ==
    LET r == LoadOrCompute(files, k, out) IN
    /\ TotalCalls < MaxCalls
    /\ pre' = files
    /\ dirs' = GetCachePath(dirs, k)
    /\ files' = r.files
    /\ nCalls' = Bump(nCalls, k)
    /\ nComputes' = IF r.computed THEN Bump(nComputes, k) ELSE nComputes
    /\ nOk' = IF r.computed /\ r.status = "returned"
              THEN Bump(nOk, k) ELSE nOk
    /\ rets' = IF r.status = "returned"
               THEN [rets EXCEPT ![k] = @ \cup {r.value}] ELSE rets
    /\ last' = [key |-> k, status |-> r.status, value |-> r.value,
                computed |-> r.computed]
    /\ UNCHANGED <<concVars, procVars, indexVars, runVars, graphVars>>

NoCall == [key |-> <<"", "">>, status |-> "none", value |-> None,
           computed |-> FALSE]

CacheInit ==
    /\ files = [k \in Keys |-> Absent]
    /\ dirs = {}

SeqInit ==
    /\ pre = [k \in Keys |-> Absent]
    /\ last = NoCall
    /\ nCalls = [k \in Keys |-> 0]
    /\ nComputes = [k \in Keys |-> 0]
    /\ nOk = [k \in Keys |-> 0]
    /\ rets = [k \in Keys |-> {}]

Workers == {"w1", "w2"}

ConcInit ==
    /\ wpc = [w \in Workers |-> "idle"]
    /\ wcached = [w \in Workers |-> None]
    /\ wresult = [w \in Workers |-> None]

\* No processed article, no bias results.
NoArticle == [article_id |-> "", headline |-> "", motifs |-> <<>>,
              narrated_agents |-> <<>>, quotes |-> <<>>]

\* run() has not been called.
RunIdle ==
    /\ run = 0
    /\ rpc = "idle"
    /\ ri = 1
    /\ stages = <<>>
    /\ ext = 0
    /\ failed = FALSE
    /\ error = ""
    /\ warm = FALSE
    /\ prevWarm = FALSE
    /\ headline = ""
    /\ margs = <<>>
    /\ agents = <<>>
    /\ quotes = <<>>
    /\ processed = NoArticle
    /\ prevProcessed = NoArticle
    /\ biases = <<>>
    /\ prevBiases = <<>>
    /\ processedFile = NoArticle
    /\ biasesFile = <<>>
    /\ merged = {}

(***************************************************************************)
(* RDF graphs and the files that hold them (rdflib.Graph).  A graph is a   *)
(* set of triples; the names of blank nodes are local to a file and are    *)
(* made anew by every parse, so a graph is kept up to those names: its     *)
(* owl:imports triples, its other triples without a blank node, and how    *)
(* many copies of a blank-node structure it holds.                         *)
(***************************************************************************)

Triples == {"t1", "t2"}
ImportTargets == {"tbox.owl"}

EmptyGraph == [imports |-> {}, ground |-> {}, blank |-> 0]

\* The fragments of the model: with and without an import, with and
\* without blank nodes, sharing triples or not, and one without any triple.
Fragments ==
    {[imports |-> ImportTargets, ground |-> {"t1"}, blank |-> 0],
     [imports |-> {}, ground |-> {"t2"}, blank |-> 0],
     [imports |-> ImportTargets, ground |-> Triples, blank |-> 1],
     [imports |-> {}, ground |-> {}, blank |-> 1],
     EmptyGraph}

\* A file: absent, of zero length, not parsable, or a serialized graph.
NoFile        == [kind |-> "absent", graph |-> EmptyGraph]
EmptyFile     == [kind |-> "empty", graph |-> EmptyGraph]
MalformedFile == [kind |-> "malformed", graph |-> EmptyGraph]

\* Graph.serialize(destination, format): the file holds the graph.
Serialize(g) == [kind |-> "xml", graph |-> g]

\* Path.exists() and Path.stat().st_size.
Exists(f)  == f.kind # "absent"
NonZero(f) == f.kind \in {"malformed", "xml"}

\* Graph.parse(file, format): the graph of the file; it raises on a file
\* that is of zero length or otherwise no document.
Parse(f) == IF f.kind = "xml"
            THEN [ok |-> TRUE, graph |-> f.graph]
            ELSE [ok |-> FALSE, graph |-> EmptyGraph]

\* g_main += g_new: the union of the triples; the blank nodes of the two
\* parses are different nodes.
Union_Replace(g, h) == h
Union_SameBlank(g, h) ==
    [imports |-> g.imports \cup h.imports,
     ground  |-> g.ground \cup h.ground,
     blank   |-> IF g.blank >= h.blank THEN g.blank ELSE h.blank]
Union(g, h) ==
    [imports |-> g.imports \cup h.imports,
     ground  |-> g.ground \cup h.ground,
     blank   |-> g.blank + h.blank]

\* g.remove((None, OWL.imports, None)).
RemoveImports_Keep(g) == g
RemoveImports(g) == [g EXCEPT !.imports = {}]

\* The number of triples of a graph.
Count(g) == Cardinality(g.imports) + Cardinality(g.ground) + g.blank

MergeFns == {"append_to_rdf_file", "_append_flat"}
MergeWorkers == {"m1", "m2"}

NoMerge == [fn |-> "", src |-> NoFile, status |-> "none"]

\* A fragment that has not been built.
NoFragment == [status |-> "none", nodes |-> <<>>, edges |-> {}]

\* No article is being converted.
FragIdle ==
    /\ fin = [motifs |-> <<>>, narrated_agents |-> <<>>, quotes |-> <<>>]
    /\ fart = NoArticle
    /\ frows = <<>>
    /\ frag = NoFragment
    /\ dfrag = NoFragment
    /\ fpc = "idle"

\* No merge has been made.
MergeIdle ==
    /\ store = NoFile
    /\ mstart = NoFile
    /\ mpre = NoFile
    /\ mlast = NoMerge
    /\ mhist = <<>>
    /\ mpc = [w \in MergeWorkers |-> "idle"]
    /\ msrc = [w \in MergeWorkers |-> NoFile]
    /\ mmain = [w \in MergeWorkers |-> EmptyGraph]
    /\ mseen = [w \in MergeWorkers |-> "idle"]
    /\ mfn = [w \in MergeWorkers |-> ""]

\* Neither a merge nor a conversion has been made.
GraphIdle == MergeIdle /\ FragIdle

\* No DimaOTK has been constructed and no article has been run.
ProcIdle ==
    /\ ppredef = ""
    /\ ptmp = <<>>
    /\ pfull = NoFile
    /\ pdima = NoFile
    /\ phist = <<>>
    /\ psteps = 0

(***************************************************************************)
(* The component identity index: is_similar and assign_component_id        *)
(***************************************************************************)

UpperCase == "ABCDEFGHIJKLMNOPQRSTUVWXYZ"
LowerCase == "abcdefghijklmnopqrstuvwxyz"

\* The i-th character of a string.
Char(s, i) == SubSeq(s, i, i)

\* str.lower() of one character.
LowerChar(c) ==
    IF \E i \in 1..Len(UpperCase) : Char(UpperCase, i) = c
    THEN LET i == CHOOSE i \in 1..Len(UpperCase) : Char(UpperCase, i) = c
         IN  Char(LowerCase, i)
    ELSE c

\* text.lower(), as the sequence of its characters.
Lower(s) == [i \in 1..Len(s) |-> LowerChar(Char(s, i))]

\* The length of the common run of a and b that starts at a[i], b[j] and
\* stays inside a[..ahi], b[..bhi].
RECURSIVE RunFrom(_, _, _, _, _, _)
RunFrom(a, b, i, j, ahi, bhi) ==
    IF i > ahi \/ j > bhi \/ a[i] # b[j]
    THEN 0
    ELSE 1 + RunFrom(a, b, i + 1, j + 1, ahi, bhi)

\* SequenceMatcher.find_longest_match(alo, ahi, blo, bhi) without junk: the
\* longest block a[i..i+k-1] = b[j..j+k-1] inside the two ranges; of all the
\* longest ones the one that starts earliest in a, and of those the one
\* that starts earliest in b.  (Ranges are inclusive here; k = 0 when no
\* element matches.)
FindLongestMatch(a, b, alo, ahi, blo, bhi) ==
    LET pos  == (alo..ahi) \X (blo..bhi)
        len(p) == RunFrom(a, b, p[1], p[2], ahi, bhi)
        lens == [p \in pos |-> len(p)]
        best == CHOOSE p \in pos :
                    \A q \in pos :
                        \/ lens[p] > lens[q]
                        \/ /\ lens[p] = lens[q]
                           /\ \/ p[1] < q[1]
                              \/ p[1] = q[1] /\ p[2] <= q[2]
    IN  [i |-> best[1], j |-> best[2], k |-> lens[best]]

\* The sum of the sizes of SequenceMatcher.get_matching_blocks(): the
\* longest match, then the same to its left and to its right.
RECURSIVE MatchCount(_, _, _, _, _, _)
MatchCount(a, b, alo, ahi, blo, bhi) ==
    IF alo > ahi \/ blo > bhi
    THEN 0
    ELSE LET m == FindLongestMatch(a, b, alo, ahi, blo, bhi) IN
         IF m.k = 0
         THEN 0
         ELSE m.k
              + MatchCount(a, b, alo, m.i - 1, blo, m.j - 1)
              + MatchCount(a, b, m.i + m.k, ahi, m.j + m.k, bhi)

\* The threshold of is_similar, 0.95, in hundredths.
ThresholdPct == 95

\* ratio() >= 0.95, where ratio() is 2.0 * matches / (len(a) + len(b)) and
\* 1.0 for two empty sequences.  The comparison is exact in integers: the
\* float quotient is the double nearest to the rational, and 0.95 is the
\* double nearest to 19/20.
RatioAtLeast(matches, total) ==
    IF total = 0 THEN TRUE ELSE 2 * matches * 100 >= ThresholdPct * total

\* is_similar(text1, text2): SequenceMatcher(None, text1.lower(),
\* text2.lower()).ratio() >= threshold.  Texts here are shorter than 200
\* characters, so the matcher's automatic junk heuristic is off.
IsSimilar_CaseSensitive(text1, text2) ==
    LET a == [i \in 1..Len(text1) |-> Char(text1, i)]
        b == [i \in 1..Len(text2) |-> Char(text2, i)]
    IN  RatioAtLeast(MatchCount(a, b, 1, Len(a), 1, Len(b)), Len(a) + Len(b))
IsSimilar(text1, text2) ==
    LET a == Lower(text1)
        b == Lower(text2)
    IN  RatioAtLeast(MatchCount(a, b, 1, Len(a), 1, Len(b)), Len(a) + Len(b))

\* The component texts an extraction may return.
Texts == {"The sky is blue.", "the SKY is blue", "The sky is blue!",
          "The economy is strong."}

Kinds == {"premise", "development", "conclusion"}

\* Two premises of one article that differ in the final full stop only.
BorderTexts == {"Border crossings increased sharply",
                "Border crossings increased sharply."}

\* is_similar on the texts of the model, computed once: the pairs
\* (text1, text2) with is_similar(text1, text2).
SimTable ==
    UNION {IF IsSimilar(p[1], p[2]) THEN {p} ELSE {}
           : p \in (Texts \cup BorderTexts) \X (Texts \cup BorderTexts)}

\* is_similar(text, known) on the texts of the model.
Similar(text, known) == <<text, known>> \in SimTable

\* Lines 44-46: the position in the map (in insertion order) of the first
\* known text that text is similar to; 0 when the loop ends without one.
First(hits) ==
    IF hits = {} THEN 0 ELSE CHOOSE i \in hits : \A j \in hits : i <= j
Last(hits) ==
    IF hits = {} THEN 0 ELSE CHOOSE i \in hits : \A j \in hits : j <= i
FirstSimilar_Last(text, m) ==
    Last({i \in 1..Len(m) : Similar(text, m[i].text)})
FirstSimilar_FromSecond(text, m) ==
    First({i \in 2..Len(m) : Similar(text, m[i].text)})
FirstSimilar(text, m) ==
    First({i \in 1..Len(m) : Similar(text, m[i].text)})

\* Line 47: f"{prefix}_{counters[prefix]}".
NewId_FromOne(prefix, n) == prefix \o "_" \o ToString(n + 1)
NewId(prefix, n) == prefix \o "_" \o ToString(n)

\* Line 48: counters[prefix] += 1.
CountersAfterMint_All(ctrs, prefix) ==
    [c \in DOMAIN ctrs |-> IF c \in Kinds THEN ctrs[c] + 1 ELSE ctrs[c]]
CountersAfterMint(ctrs, prefix) == [ctrs EXCEPT ![prefix] = @ + 1]

\* Line 49: component_map[text] = new_id (a new key goes last).
RecordText_Forget(m, text, id) == m
RecordText(m, text, id) == Append(m, [text |-> text, id |-> id])

\* assign_component_id(text, component_map, prefix, counters): the id it
\* returns, and the map and the counters as it leaves them.
AssignComponentId(text, m, prefix, ctrs) ==
    LET Return(hit) ==
            IF hit # 0
            THEN [id |-> m[hit].id, map |-> m, counters |-> ctrs,
                  minted |-> FALSE]
            ELSE LET new_id == NewId(prefix, ctrs[prefix]) IN
                 [id       |-> new_id,
                  map      |-> RecordText(m, text, new_id),
                  counters |-> CountersAfterMint(ctrs, prefix),
                  minted   |-> TRUE]
    IN Return(FirstSimilar(text, m))

\* Bound on the assign_component_id calls of one run.
MaxAssign == 4

\* Line 98 of get_arguments_from_motifs: one component gets its id.
Assign(text, kind) ==
    \E r \in {AssignComponentId(text, cmap[kind], kind, counters)} :
    /\ Len(hist) < MaxAssign
    /\ prevCmap' = cmap
    /\ prevCounters' = counters
    /\ cmap' = [cmap EXCEPT ![kind] = r.map]
    /\ counters' = r.counters
    /\ call' = [text |-> text, kind |-> kind, id |-> r.id]
    /\ hist' = Append(hist, [text |-> text, kind |-> kind, id |-> r.id,
                             minted |-> r.minted])
    /\ UNCHANGED <<cacheVars, seqVars, concVars, procVars, runVars, graphVars>>

NoAssign == [text |-> "", kind |-> "", id |-> ""]

\* Lines 63-69: empty maps and zero counters at the start of a run.
IndexInit ==
    /\ cmap = [k \in Kinds |-> <<>>]
    /\ counters = [c \in Kinds \cup {"argument"} |-> 0]
    /\ prevCmap = [k \in Kinds |-> <<>>]
    /\ prevCounters = [c \in Kinds \cup {"argument"} |-> 0]
    /\ call = NoAssign
    /\ hist = <<>>

InitIndex == CacheInit /\ SeqInit /\ ConcInit /\ ProcIdle /\ IndexInit /\ RunIdle
             /\ GraphIdle

NextIndex == \E text \in Texts, kind \in Kinds : Assign(text, kind)

SpecIndex == InitIndex /\ [][NextIndex]_vars

InitCache == CacheInit /\ SeqInit /\ ConcInit /\ ProcIdle /\ IndexInit /\ RunIdle
             /\ GraphIdle

NextCache == \E k \in Keys, out \in Payloads \cup {Raise} :
                 LoadOrComputeCache(k, out)

SpecCache == InitCache /\ [][NextCache]_vars

(***************************************************************************)
(* Claims about the identity index.  `hits` are the positions of the       *)
(* recorded texts the last call's text is similar to; Before(i, kind) are  *)
(* the earlier calls of the run that minted an id of that kind.            *)
(***************************************************************************)
CallHits ==
    {i \in 1..Len(prevCmap[call.kind]) :
        Similar(call.text, prevCmap[call.kind][i].text)}

Before(i, kind) ==
    {j \in 1..(i - 1) : hist[j].kind = kind /\ hist[j].minted}

(***************************************************************************)
(* C4  When a recorded text of the kind is similar to the text (ratio of   *)
(* the lower-cased texts >= 0.95), assign_component_id returns the id of   *)
(* the first such entry in insertion order, mints no id, leaves the        *)
(* counters unchanged and records nothing.                                 *)
(***************************************************************************)
C4_FirstMatchWins ==
    (call # NoAssign /\ CallHits # {})
        => /\ \E i \in CallHits :
                 /\ \A j \in CallHits : i <= j
                 /\ call.id = prevCmap[call.kind][i].id
           /\ cmap = prevCmap
           /\ counters = prevCounters
           /\ ~hist[Len(hist)].minted

\* The text matched two recorded texts that hold different ids.
C4_Witness ==
    /\ call # NoAssign
    /\ Cardinality({prevCmap[call.kind][i].id : i \in CallHits}) >= 2

(***************************************************************************)
(* C5  When no recorded text of the kind is similar, assign_component_id   *)
(* mints "{kind}_{n}", n being the number of ids minted so far for that    *)
(* kind in this run, adds one to that kind's counter and to no other,      *)
(* records text -> id, and returns the id; so the ids minted for a kind    *)
(* are kind_0, kind_1, ... in submission order.                            *)
(***************************************************************************)
C5_MintsNextId ==
    /\ (call # NoAssign /\ CallHits = {})
          => /\ call.id = call.kind \o "_"
                             \o ToString(Cardinality(Before(Len(hist),
                                                             call.kind)))
             /\ hist[Len(hist)].minted
             /\ counters[call.kind] = prevCounters[call.kind] + 1
             /\ \A c \in DOMAIN counters \ {call.kind} :
                    counters[c] = prevCounters[c]
             /\ cmap[call.kind] = Append(prevCmap[call.kind],
                                         [text |-> call.text, id |-> call.id])
             /\ \A k \in Kinds \ {call.kind} : cmap[k] = prevCmap[k]
    /\ \A i \in 1..Len(hist) :
          hist[i].minted
            => hist[i].id = hist[i].kind \o "_"
                              \o ToString(Cardinality(Before(i, hist[i].kind)))

\* Three pairwise non-similar texts of one kind got kind_0, kind_1, kind_2,
\* with an id of another kind minted in between.
C5_Witness ==
    \E k \in Kinds :
        /\ Len(cmap[k]) = 3
        /\ cmap[k][3].id = k \o "_2"
        /\ \E k2 \in Kinds \ {k} : Len(cmap[k2]) = 1
        /\ call # NoAssign /\ call.kind = k

(***************************************************************************)
(* C6  Within one run an id is stable: once assign_component_id returned   *)
(* X for (text, kind), every later call with that text and kind returns X, *)
(* whatever was assigned in between.                                       *)
(***************************************************************************)
C6_StableId ==
    \A i, j \in 1..Len(hist) :
        (i < j /\ hist[i].text = hist[j].text /\ hist[i].kind = hist[j].kind)
            => hist[i].id = hist[j].id

\* A text that was matched to an earlier cluster (and so not recorded) is
\* submitted again after a text similar to it was recorded under a new id.
C6_Witness ==
    \E i, j, l \in 1..Len(hist) :
        /\ i < l /\ l < j
        /\ hist[i].text = hist[j].text /\ hist[i].kind = hist[j].kind
        /\ ~hist[i].minted
        /\ hist[l].kind = hist[i].kind /\ hist[l].minted
        /\ Similar(hist[j].text, hist[l].text)

(***************************************************************************)
(* C7  Within one run, any two texts of the same kind whose similarity is  *)
(* >= 0.95 resolve to one id, for every submission order.                  *)
(***************************************************************************)
C7_SimilarShareId ==
    \A i, j \in 1..Len(hist) :
        (hist[i].kind = hist[j].kind /\ Similar(hist[i].text, hist[j].text))
            => hist[i].id = hist[j].id

(***************************************************************************)
(* C7 as amended: a text resolves to the id of an earlier text of its kind *)
(* that it is similar to when that earlier text was recorded (it minted    *)
(* its id) and no text recorded before it is similar to the later text.    *)
(***************************************************************************)
C7_SimilarToFirstRecorded ==
    \A i, j \in 1..Len(hist) :
        ( /\ i < j
          /\ hist[i].kind = hist[j].kind
          /\ hist[i].minted
          /\ Similar(hist[j].text, hist[i].text)
          /\ \A l \in Before(i, hist[i].kind) :
                 ~Similar(hist[j].text, hist[l].text) )
            => hist[i].id = hist[j].id

\* A different text joined the cluster of the second text recorded for
\* its kind.
C7_Witness ==
    \E i, j \in 1..Len(hist) :
        /\ i < j
        /\ hist[i].kind = hist[j].kind
        /\ hist[i].minted
        /\ hist[i].text # hist[j].text
        /\ Similar(hist[j].text, hist[i].text)
        /\ Before(i, hist[i].kind) # {}
        /\ \A l \in Before(i, hist[i].kind) :
               ~Similar(hist[j].text, hist[l].text)
        /\ hist[i].id = hist[j].id

(***************************************************************************)
(* C1  Cache idempotence.  For every (category, key) and every payload     *)
(* compute can return, the empty ones included: compute returns at most    *)
(* once, every call made on an existing entry returns that entry without   *)
(* calling compute, and all calls return the same payload.                 *)
(***************************************************************************)
C1_ComputeOnce ==
    \A k \in Keys :
        /\ nOk[k] <= 1
        /\ Cardinality(rets[k]) <= 1
        /\ (last.key = k /\ pre[k] # Absent /\ Load(pre[k]) \in Payloads)
               => /\ ~last.computed
                  /\ last.status = "returned"
                  /\ last.value = Load(pre[k])

(***************************************************************************)
(* C2  When compute raises on a key that has no entry, the error reaches   *)
(* the caller and the cache is as it was: the key still has no entry,      *)
(* every other entry keeps its content, and (so) every call made on the    *)
(* key up to now has called compute.                                       *)
(***************************************************************************)
C2_RaiseWritesNothing ==
    (last.status = "raised" /\ pre[last.key] = Absent)
        => /\ files = pre
           /\ files[last.key] = Absent
           /\ nComputes[last.key] = nCalls[last.key]

\* compute raised for the second time on a key, beside an existing entry.
C2_Witness ==
    /\ last.status = "raised"
    /\ pre[last.key] = Absent
    /\ nCalls[last.key] >= 2
    /\ \E k \in Keys : k # last.key /\ files[k] # Absent

(***************************************************************************)
(* Two workers in load_or_compute_cache for the same (category, key).      *)
(* The steps are the places where the code touches the file system: the    *)
(* read of load_json_cache, the call of compute_fn, and the open(path,     *)
(* "w") and the json.dump/close of save_json_cache.                        *)
(***************************************************************************)

ConcKey == <<"arguments_cache", "a">>

\* Lines 59-64: load_json_cache and the `if cached:` branch.
WLoad(w) ==
    LET cached == LoadJsonCache(files, ConcKey) IN
    /\ wpc[w] = "idle"
    /\ TotalCalls < MaxCalls
    /\ nCalls' = Bump(nCalls, ConcKey)
    /\ dirs' = GetCachePath(dirs, ConcKey)
    /\ wcached' = [wcached EXCEPT ![w] = cached]
    /\ wpc' = [wpc EXCEPT ![w] =
                  IF cached.type = DecodeError.type THEN "raised"
                  ELSE IF CacheHit(cached) THEN "returned"
                  ELSE "computing"]
    /\ wresult' = [wresult EXCEPT ![w] =
                      IF cached.type # DecodeError.type /\ CacheHit(cached)
                      THEN cached ELSE None]
    /\ UNCHANGED <<files, pre, last, nComputes, nOk, rets, indexVars, runVars, graphVars, procVars>>

\* Line 68: result = compute_fn().
WCompute(w, out) ==
    /\ wpc[w] = "computing"
    /\ nComputes' = Bump(nComputes, ConcKey)
    /\ IF out.type = Raise.type
       THEN /\ wpc' = [wpc EXCEPT ![w] = "raised"]
            /\ UNCHANGED <<wresult, nOk>>
       ELSE /\ wpc' = [wpc EXCEPT ![w] = "saving"]
            /\ wresult' = [wresult EXCEPT ![w] = out]
            /\ nOk' = Bump(nOk, ConcKey)
    /\ UNCHANGED <<files, dirs, pre, last, nCalls, rets, wcached, indexVars, runVars, graphVars, procVars>>

\* Line 38: open(path, "w") leaves an empty file.
WOpen(w) ==
    /\ wpc[w] = "saving"
    /\ files' = [files EXCEPT ![ConcKey] = <<>>]
    /\ wpc' = [wpc EXCEPT ![w] = "dumping"]
    /\ UNCHANGED <<dirs, seqVars, wcached, wresult, indexVars, runVars, graphVars, procVars>>

\* Line 39 and the end of the with block: the text reaches the file.
WDump(w) ==
    /\ wpc[w] = "dumping"
    /\ files' = SaveJsonCache(files, ConcKey, wresult[w])
    /\ wpc' = [wpc EXCEPT ![w] = "returned"]
    /\ UNCHANGED <<dirs, seqVars, wcached, wresult, indexVars, runVars, graphVars, procVars>>

\* The call is over (it returned or raised); the worker may call again.
WExit(w) ==
    /\ wpc[w] \in {"returned", "raised"}
    /\ wpc' = [wpc EXCEPT ![w] = "idle"]
    /\ wcached' = [wcached EXCEPT ![w] = None]
    /\ wresult' = [wresult EXCEPT ![w] = None]
    /\ UNCHANGED <<files, dirs, seqVars, indexVars, runVars, graphVars, procVars>>

NextConc ==
    \E w \in Workers :
        \/ WLoad(w)
        \/ \E out \in Payloads \cup {Raise} : WCompute(w, out)
        \/ WOpen(w)
        \/ WDump(w)
        \/ WExit(w)

SpecConc == InitCache /\ [][NextConc]_vars

(***************************************************************************)
(* C3  Two workers calling load_or_compute_cache concurrently for one key  *)
(* that has no entry yet: compute is invoked by at most one of them.  (No  *)
(* two calls in progress have both found no entry and both got a result    *)
(* from compute.)                                                          *)
(***************************************************************************)
C3_AtMostOneCompute ==
    Cardinality({w \in Workers :
                    /\ wcached[w].type = None.type
                    /\ wpc[w] \in {"saving", "dumping"}}) <= 1

(***************************************************************************)
(* DimaOTK.run (dima_otk.py) on one article, called several times.  The    *)
(* cache directory is on disk and outlives a run and the process; the      *)
(* locals of run() are reset when it is entered.  One motif loop turn is   *)
(* one step.  Of the technique extractors, one (TE0321, memorise) stands   *)
(* for all: they share get_memorise_technique's loop.                      *)
(***************************************************************************)

\* Bound on the number of run() calls in one behaviour.
MaxRuns == 3

ArticleId == "article"

\* identify_motifs: the paragraphs of the article, numbered from 0.
MotifIds == <<"motif_0", "motif_1">>
NMotifs  == Len(MotifIds)

\* The cache entries of the article: (cache_type, cache_key).
HeadlineKey     == <<"headline_cache", ArticleId>>
ArgumentsKey(i) == <<"arguments_cache", ArticleId \o "-" \o MotifIds[i]>>
AgentsKey       == <<"agents_cache", ArticleId \o "-agents">>
QuotesKey(i)    == <<"quotes_cache",
                     ArticleId \o "-" \o MotifIds[i] \o "_quotes">>
TechniqueKey(i) == <<"memorise_cache",
                     ArticleId \o "-" \o MotifIds[i] \o "-TE0321">>
RunKeys == {HeadlineKey, AgentsKey}
           \cup {ArgumentsKey(i) : i \in 1..NMotifs}
           \cup {QuotesKey(i) : i \in 1..NMotifs}
           \cup {TechniqueKey(i) : i \in 1..NMotifs}

\* The payload {"<name>": v} every compute_fn of the pipeline builds, and
\* cache_result["<name>"].
DictOf(v) == [type |-> "dict", items |-> <<v>>]
Value(p)  == p.items[1]

\* The argument lists an arguments cache entry may hold: none, or one
\* argument over the texts of the identity index.
RawArguments ==
    { <<>>,
      << [premises     |-> <<"The sky is blue.">>,
          developments |-> <<>>,
          conclusions  |-> <<"The economy is strong.">>] >>,
      << [premises     |-> <<"the SKY is blue">>,
          developments |-> <<"The sky is blue!">>,
          conclusions  |-> <<>>] >> }

\* Lines 63-69 of get_arguments_from_motifs: the maps and the counters are
\* locals, made anew by every call.
FreshCounters_Kept == counters
FreshCounters == [c \in Kinds \cup {"argument"} |-> 0]
FreshMaps     == [k \in Kinds |-> <<>>]

\* Line 98 over one section of one argument: the components get their ids
\* in order, through the maps and counters st.
AssignComponents(texts, prefix, st) ==
    LET Next(prev, text, r) ==
            [out |-> Append(prev.out, [id |-> r.id, text |-> text]),
             st  |-> [cmap     |-> [prev.st.cmap EXCEPT ![prefix] = r.map],
                      counters |-> r.counters]]
        F[i \in 0..Len(texts)] ==
            IF i = 0
            THEN [out |-> <<>>, st |-> st]
            ELSE Next(F[i - 1], texts[i],
                      AssignComponentId(texts[i], F[i - 1].st.cmap[prefix],
                                        prefix, F[i - 1].st.counters))
    IN F[Len(texts)]

\* Lines 92-96: the sections of an argument and their prefixes, in the
\* order of the loop.
Sections == <<[section |-> "premises",     prefix |-> "premise"],
              [section |-> "developments", prefix |-> "development"],
              [section |-> "conclusions",  prefix |-> "conclusion"]>>

\* Lines 88-98: one argument gets its argument_id and its components their
\* ids, section after section.
AssignArgument(arg, st) ==
    LET Next(prev, j, r) ==
            [out |-> [prev.out EXCEPT ![Sections[j].section] = r.out],
             st  |-> r.st]
        G[j \in 0..Len(Sections)] ==
            IF j = 0
            THEN [out |-> [argument_id  |-> NewId("argument",
                                                  st.counters["argument"]),
                           premises     |-> <<>>,
                           developments |-> <<>>,
                           conclusions  |-> <<>>],
                  st  |-> [st EXCEPT !.counters["argument"] = @ + 1]]
            ELSE Next(G[j - 1], j,
                      AssignComponents(arg[Sections[j].section],
                                       Sections[j].prefix, G[j - 1].st))
    IN G[Len(Sections)]

\* Line 87: the arguments of one motif, in order.
AssignArguments(args, st) ==
    LET Next(prev, a) == [out |-> Append(prev.out, a.out), st |-> a.st]
        F[i \in 0..Len(args)] ==
            IF i = 0
            THEN [out |-> <<>>, st |-> st]
            ELSE Next(F[i - 1], AssignArgument(args[i], F[i - 1].st))
    IN F[Len(args)]

\* Lines 57-64 of get_quotes_for_article: the components of a motif.
Components(arguments) ==
    LET F[i \in 0..Len(arguments)] ==
            IF i = 0
            THEN <<>>
            ELSE F[i - 1] \o arguments[i].premises
                 \o arguments[i].developments \o arguments[i].conclusions
    IN F[Len(arguments)]

\* The statement run() goes to after a stage.
AfterQuotes  == "persist"
AfterPersist_SkipTechniques == "persist_biases"
AfterPersist == "techniques"

Ends == {"idle", "done", "aborted"}

\* Lines 64-77: run() is entered.
RunBegin ==
    /\ rpc \in Ends
    /\ run < MaxRuns
    /\ run' = run + 1
    /\ rpc' = "headline"
    /\ ri' = 1
    /\ stages' = <<>>
    /\ ext' = 0
    /\ failed' = FALSE
    /\ error' = ""
    /\ warm' = \A k \in RunKeys : files[k] # Absent
    /\ prevWarm' = warm
    /\ headline' = ""
    /\ margs' = <<>>
    /\ agents' = <<>>
    /\ quotes' = <<>>
    /\ processed' = NoArticle
    /\ prevProcessed' = processed
    /\ biases' = <<>>
    /\ prevBiases' = biases
    /\ merged' = {}
    /\ UNCHANGED <<cacheVars, seqVars, concVars, procVars, graphVars, indexVars,
                   processedFile, biasesFile>>

\* Line 78, get_article_headline: extract_headline gives the headline, or
\* "Untitled Article" when its call fails.
StepHeadline(o) ==
    LET r == LoadOrCompute(files, HeadlineKey,
                 DictOf(IF o = "ok" THEN "Headline" ELSE "Untitled Article"))
    IN
    /\ rpc = "headline"
    /\ files' = r.files
    /\ dirs' = GetCachePath(dirs, HeadlineKey)
    /\ headline' = Value(r.value)
    /\ ext' = ext + (IF r.computed THEN 1 ELSE 0)
    /\ rpc' = "motifs"
    /\ UNCHANGED <<seqVars, concVars, procVars, graphVars, indexVars, run, ri, stages, failed,
                   error, warm, prevWarm, margs, agents, quotes, processed,
                   prevProcessed, biases, prevBiases, processedFile,
                   biasesFile, merged>>

\* Lines 88-91: the motifs of the article.
StepMotifs ==
    /\ rpc = "motifs"
    /\ stages' = Append(stages, "Segmented")
    /\ rpc' = "arguments"
    /\ ri' = 1
    /\ UNCHANGED <<cacheVars, seqVars, concVars, procVars, graphVars, indexVars, run, ext, failed,
                   error, warm, prevWarm, headline, margs, agents, quotes,
                   processed, prevProcessed, biases, prevBiases,
                   processedFile, biasesFile, merged>>

\* Line 95, one turn of the loop of get_arguments_from_motifs (the first
\* turn after lines 63-72).  compute_fn calls process_arguments, whose
\* first statement reads the undefined name motif_id: it raises NameError
\* before extract_arguments is called, and nothing in run() catches it.
StepArguments ==
    LET r  == LoadOrCompute(files, ArgumentsKey(ri), Raise)
        st == IF ri = 1
              THEN [cmap |-> FreshMaps, counters |-> FreshCounters]
              ELSE [cmap |-> cmap, counters |-> counters]
    IN
    /\ rpc = "arguments"
    /\ files' = r.files
    /\ dirs' = GetCachePath(dirs, ArgumentsKey(ri))
    /\ IF r.status # "returned"
       THEN /\ rpc' = "aborted"
            /\ error' = "NameError"
            /\ UNCHANGED <<cmap, counters, margs, stages, ri>>
       ELSE \E a \in {AssignArguments(Value(r.value), st)} :
            /\ cmap' = a.st.cmap
            /\ counters' = a.st.counters
            /\ margs' = Append(margs, [motif_id  |-> MotifIds[ri],
                                       arguments |-> a.out])
            /\ error' = error
            /\ IF ri = NMotifs
               THEN /\ stages' = Append(stages, "ArgumentsExtracted")
                    /\ rpc' = "agents"
                    /\ ri' = 1
               ELSE /\ ri' = ri + 1
                    /\ UNCHANGED <<stages, rpc>>
    /\ UNCHANGED <<seqVars, concVars, procVars, graphVars, prevCmap, prevCounters, call, hist,
                   run, ext, failed, warm, prevWarm, headline, agents, quotes,
                   processed, prevProcessed, biases, prevBiases,
                   processedFile, biasesFile, merged>>

\* What extract_narrated_agents may give: [] when its call fails, else the
\* list the model answered.
AgentOutcomes == {"fail", "none", "one"}
RawAgents(o) == IF o = "one"
                THEN <<[name |-> "Alice", type |-> "NarratedAgentPerson"]>>
                ELSE <<>>

\* Line 100, get_narrated_agents: agent_<i> for the i-th raw agent.
StepAgents(o) ==
    LET r   == LoadOrCompute(files, AgentsKey, DictOf(RawAgents(o)))
        raw == Value(r.value)
    IN
    /\ rpc = "agents"
    /\ files' = r.files
    /\ dirs' = GetCachePath(dirs, AgentsKey)
    /\ agents' = [i \in 1..Len(raw) |->
                    [agent_id |-> NewId("agent", i - 1),
                     name     |-> IF raw[i].name = "" THEN "unknown"
                                  ELSE raw[i].name,
                     type     |-> raw[i].type]]
    /\ ext' = ext + (IF r.computed THEN 1 ELSE 0)
    /\ failed' = (failed \/ (r.computed /\ o = "fail"))
    /\ stages' = Append(stages, "AgentsExtracted")
    /\ rpc' = "quotes"
    /\ ri' = 1
    /\ UNCHANGED <<seqVars, concVars, procVars, graphVars, indexVars, run, error, warm, prevWarm,
                   headline, margs, quotes, processed, prevProcessed, biases,
                   prevBiases, processedFile, biasesFile, merged>>

\* process_quotes.  extract_quote_shells gives [] when its call fails;
\* assign_quote_agents gives the quotes back untouched, without the keys
\* attributed_to and mentions, when its call fails; link_quotes_to_components
\* makes no call when the motif has no component, and sets
\* maps_to_arg_components to [] when its call fails.
ShellOutcomes == {"fail", "none", "one"}
CallOutcomes  == {"fail", "ok"}

ExtractQuoteShells(s) ==
    IF s = "one"
    THEN <<[text |-> "Q", type |-> "DirectQuote", status |-> "Statement",
            has_agent_keys |-> FALSE, attributed_to |-> <<>>,
            mentions |-> <<>>, maps_to_arg_components |-> <<>>]>>
    ELSE <<>>

AssignQuoteAgents(quote_list, a) ==
    IF a = "ok"
    THEN [i \in 1..Len(quote_list) |->
            [quote_list[i] EXCEPT !.has_agent_keys = TRUE,
                                  !.attributed_to = <<"agent_0">>]]
    ELSE quote_list

LinkQuotesToComponents(quote_list, components, l) ==
    [i \in 1..Len(quote_list) |->
        [quote_list[i] EXCEPT !.maps_to_arg_components =
            IF Len(components) = 0 \/ l = "fail"
            THEN <<>> ELSE <<components[1].id>>]]

ProcessQuotes(components, s, a, l) ==
    LinkQuotesToComponents(AssignQuoteAgents(ExtractQuoteShells(s), a),
                           components, l)

\* Line 105, one turn of the loop of get_quotes_for_article.
StepQuotes(s, a, l) ==
    LET components == Components(margs[ri].arguments)
        r  == LoadOrCompute(files, QuotesKey(ri),
                            DictOf(ProcessQuotes(components, s, a, l)))
        qs == Value(r.value)
        linkCalled == Len(components) > 0
    IN
    /\ rpc = "quotes"
    /\ files' = r.files
    /\ dirs' = GetCachePath(dirs, QuotesKey(ri))
    /\ quotes' = quotes \o
           [i \in 1..Len(qs) |->
               [quote_id |-> NewId("quote", Len(quotes) + i - 1),
                motif_id |-> margs[ri].motif_id,
                text |-> qs[i].text, type |-> qs[i].type,
                status |-> qs[i].status,
                has_agent_keys |-> qs[i].has_agent_keys,
                attributed_to |-> qs[i].attributed_to,
                mentions |-> qs[i].mentions,
                maps_to_arg_components |-> qs[i].maps_to_arg_components]]
    /\ ext' = ext + (IF ~r.computed THEN 0
                     ELSE IF linkCalled THEN 1 + 1 + 1 ELSE 1 + 1)
    /\ failed' = (failed \/ (r.computed /\ (\/ s = "fail"
                                            \/ a = "fail"
                                            \/ linkCalled /\ l = "fail")))
    /\ IF ri = NMotifs
       THEN /\ stages' = Append(stages, "QuotesExtracted")
            /\ rpc' = AfterQuotes
            /\ ri' = 1
       ELSE /\ ri' = ri + 1
            /\ UNCHANGED <<stages, rpc>>
    /\ UNCHANGED <<seqVars, concVars, procVars, graphVars, indexVars, run, error, warm, prevWarm,
                   headline, margs, agents, processed, prevProcessed, biases,
                   prevBiases, processedFile, biasesFile, merged>>

\* Lines 110-118: processed_article is built and saved.
StepPersist ==
    LET article == [article_id      |-> ArticleId,
                    headline        |-> headline,
                    motifs          |-> margs,
                    narrated_agents |-> agents,
                    quotes          |-> quotes]
    IN
    /\ rpc = "persist"
    /\ processed' = article
    /\ processedFile' = article
    /\ stages' = Append(stages, "Persisted")
    /\ rpc' = AfterPersist
    /\ ri' = 1
    /\ UNCHANGED <<cacheVars, seqVars, concVars, procVars, graphVars, indexVars, run, ext, failed,
                   error, warm, prevWarm, headline, margs, agents, quotes,
                   prevProcessed, biases, prevBiases, biasesFile, merged>>

\* What a technique extractor may give: {} when its call fails, else one
\* row per argument of the motif, with the verdict of the model.
TechniqueOutcomes == {"fail", "biased", "clean"}
ExtractTechnique(motif, o) ==
    IF o = "fail"
    THEN [json |-> "dict", rows |-> <<>>]
    ELSE [json |-> "list",
          rows |-> [j \in 1..Len(motif.arguments) |->
                      [argument_id |-> motif.arguments[j].argument_id,
                       bias        |-> (o = "biased")]]]

\* Line 122, one turn of the loop of get_memorise_technique: the rows whose
\* bias is true get the motif_id and go to the results.
StepTechnique(o) ==
    LET motif == processed.motifs[ri]
        r     == LoadOrCompute(files, TechniqueKey(ri),
                               DictOf(ExtractTechnique(motif, o)))
        hits  == SelectSeq(Value(r.value).rows, LAMBDA row : row.bias)
    IN
    /\ rpc = "techniques"
    /\ files' = r.files
    /\ dirs' = GetCachePath(dirs, TechniqueKey(ri))
    /\ biases' = biases \o
           [j \in 1..Len(hits) |->
               [argument_id |-> hits[j].argument_id,
                bias        |-> hits[j].bias,
                motif_id    |-> motif.motif_id]]
    /\ ext' = ext + (IF r.computed THEN 1 ELSE 0)
    /\ failed' = (failed \/ (r.computed /\ o = "fail"))
    /\ IF ri = NMotifs
       THEN /\ stages' = Append(stages, "TechniquesExtracted")
            /\ rpc' = "persist_biases"
            /\ ri' = 1
       ELSE /\ ri' = ri + 1
            /\ UNCHANGED <<stages, rpc>>
    /\ UNCHANGED <<seqVars, concVars, procVars, graphVars, indexVars, run, error, warm, prevWarm,
                   headline, margs, agents, quotes, processed, prevProcessed,
                   prevBiases, processedFile, biasesFile, merged>>

\* Line 124: the bias results are saved.
StepPersistBiases ==
    /\ rpc = "persist_biases"
    /\ biasesFile' = biases
    /\ rpc' = "convert_semantic"
    /\ UNCHANGED <<cacheVars, seqVars, concVars, procVars, graphVars, indexVars, run, ri, stages,
                   ext, failed, error, warm, prevWarm, headline, margs,
                   agents, quotes, processed, prevProcessed, biases,
                   prevBiases, processedFile, merged>>

\* Line 128, convert_semantic_analysis_article: it reads the saved article;
\* q["attributed_to"] at line 153 raises KeyError for a quote without the
\* key, before the fragment is saved and merged.
StepConvertSemantic ==
    /\ rpc = "convert_semantic"
    /\ IF \E i \in 1..Len(processedFile.quotes) :
              ~processedFile.quotes[i].has_agent_keys
       THEN /\ rpc' = "aborted"
            /\ error' = "KeyError"
            /\ UNCHANGED <<stages, merged>>
       ELSE /\ rpc' = "convert_dima"
            /\ error' = error
            /\ stages' = Append(stages, "GraphMerged")
            /\ merged' = merged \cup {"influence-mini_full"}
    /\ UNCHANGED <<cacheVars, seqVars, concVars, procVars, graphVars, indexVars, run, ri, ext,
                   failed, warm, prevWarm, headline, margs, agents, quotes,
                   processed, prevProcessed, biases, prevBiases,
                   processedFile, biasesFile>>

\* Line 133, convert_dima_analysis_article: the technique links are merged
\* into both cumulative stores.
StepConvertDima ==
    /\ rpc = "convert_dima"
    /\ merged' = merged \cup {"dima_full", "dima-influence-mini_full"}
    /\ rpc' = "done"
    /\ UNCHANGED <<cacheVars, seqVars, concVars, procVars, graphVars, indexVars, run, ri, stages,
                   ext, failed, error, warm, prevWarm, headline, margs,
                   agents, quotes, processed, prevProcessed, biases,
                   prevBiases, processedFile, biasesFile>>

\* The cache directory when the process starts: an arguments entry may be
\* there from before (the directory is not cleaned by DimaOTK.__init__).
InitRun ==
    /\ \E g \in [1..NMotifs -> {Absent} \cup
                             {Dump(DictOf(a)) : a \in RawArguments}] :
           files = [k \in RunKeys |->
                      IF \E i \in 1..NMotifs : k = ArgumentsKey(i)
                      THEN g[CHOOSE i \in 1..NMotifs : k = ArgumentsKey(i)]
                      ELSE Absent]
    /\ dirs = {}
    /\ SeqInit /\ ConcInit /\ ProcIdle /\ IndexInit /\ RunIdle /\ GraphIdle

NextRun ==
    \/ RunBegin
    \/ \E o \in CallOutcomes : StepHeadline(o)
    \/ StepMotifs
    \/ StepArguments
    \/ \E o \in AgentOutcomes : StepAgents(o)
    \/ \E s \in ShellOutcomes, a \in CallOutcomes, l \in CallOutcomes :
           StepQuotes(s, a, l)
    \/ StepPersist
    \/ \E o \in TechniqueOutcomes : StepTechnique(o)
    \/ StepPersistBiases
    \/ StepConvertSemantic
    \/ StepConvertDima

SpecRun == InitRun /\ [][NextRun]_vars

(***************************************************************************)
(* Claims about the article run.                                           *)
(***************************************************************************)

\* The ids of the components of a motif of motif_argument_data.
ComponentIdsOf(motif_id) ==
    UNION {{c.id : c \in {Components(margs[i].arguments)[n] :
                             n \in 1..Len(Components(margs[i].arguments))}} :
           i \in {i \in 1..Len(margs) : margs[i].motif_id = motif_id}}

IsPrefix(s, t) == Len(s) <= Len(t) /\ s = SubSeq(t, 1, Len(s))

(***************************************************************************)
(* C8  Failure isolation.  A run in which an extraction call (agents,      *)
(* quote shells, quote-agent assignment, quote-component linking,          *)
(* technique detection) has failed is not aborted: the failed unit gets    *)
(* an empty result and the run goes on to the graph merge.                 *)
(***************************************************************************)
C8_FailedCallDoesNotAbort == failed => rpc # "aborted"

(***************************************************************************)
(* C9  Stage order.  As stated: the stages of a run are completed in the   *)
(* order Segmented, ArgumentsExtracted, AgentsExtracted, QuotesExtracted,  *)
(* TechniquesExtracted, Persisted, GraphMerged.                            *)
(***************************************************************************)
StatedOrder == <<"Segmented", "ArgumentsExtracted", "AgentsExtracted",
                 "QuotesExtracted", "TechniquesExtracted", "Persisted",
                 "GraphMerged">>

RunOrder == <<"Segmented", "ArgumentsExtracted", "AgentsExtracted",
              "QuotesExtracted", "Persisted", "TechniquesExtracted",
              "GraphMerged">>

Persisted == \E n \in 1..Len(stages) : stages[n] = "Persisted"

C10_WarmRunsAgree ==
    /\ warm => ext = 0
    /\ (warm /\ prevWarm)
           => /\ Persisted => processed = prevProcessed
              /\ rpc \in Ends => Persisted /\ biases = prevBiases

\* The second of two warm runs has ended, with an id shared by two motifs
\* in its article, a quote and a bias result.
C10_Witness ==
    /\ warm /\ prevWarm
    /\ rpc = "done"
    /\ Len(processed.quotes) > 0
    /\ Len(biases) > 0
    /\ \E c \in ComponentIdsOf(MotifIds[1]) :
           c \in ComponentIdsOf(MotifIds[NMotifs])

(***************************************************************************)
(* The merge of a fragment into a cumulative store: append_to_rdf_file     *)
(* (owl_influencemini_converter.py) and _append_flat                       *)
(* (owl_dima_converter.py).                                                *)
(***************************************************************************)

\* Bound on the number of merges in one behaviour.
MaxMerges == 2

\* Whether the merge parses the store file: append_to_rdf_file when it
\* exists, _append_flat when it exists and is not of zero length.
ParsesStore(fn, dest) ==
    IF fn = "append_to_rdf_file"
    THEN Exists(dest)
    ELSE Exists(dest) /\ NonZero(dest)

\* g_main (g_dest) after the first lines of the merge.
LoadStore(fn, dest) ==
    IF ParsesStore(fn, dest)
    THEN Parse(dest)
    ELSE [ok |-> TRUE, graph |-> EmptyGraph]

\* The store file after a parse has raised: the merge has written nothing.
StoreAfterRaise_Truncated(dest) == EmptyFile
StoreAfterRaise(dest) == dest

\* The graph the merge serializes.
Merged(main, new) == RemoveImports(Union(main, new))

\* The whole merge of the fragment file src into the store file dest.
MergeResult(fn, src, dest) ==
    LET Return(main, new) ==
            IF ~main.ok \/ ~new.ok
            THEN [status |-> "raised", file |-> StoreAfterRaise(dest)]
            ELSE [status |-> "ok",
                  file   |-> Serialize(Merged(main.graph, new.graph))]
    IN Return(LoadStore(fn, dest), Parse(src))

\* The fragment files handed to a merge.
FragmentFiles == {Serialize(f) : f \in Fragments} \cup {MalformedFile}

\* The store file as the process finds it: absent, emptied by
\* clean_flat_ontology_files, damaged, or a schema document (with and
\* without an import).
StartStores ==
    {NoFile, EmptyFile, MalformedFile,
     Serialize([imports |-> ImportTargets, ground |-> {"t1"}, blank |-> 0]),
     Serialize([imports |-> {}, ground |-> {"t2"}, blank |-> 1])}

\* One merge, from its first line to its last.
Merge(fn, src) ==
    \E r \in {MergeResult(fn, src, store)} :
    /\ Len(mhist) < MaxMerges
    /\ mlast.status # "crashed"
    /\ mpre' = store
    /\ store' = r.file
    /\ mlast' = [fn |-> fn, src |-> src, status |-> r.status]
    /\ mhist' = Append(mhist, [src |-> src, status |-> r.status])
    /\ UNCHANGED <<cacheVars, seqVars, concVars, procVars, indexVars, runVars, mstart,
                   mconcVars, fragVars>>

\* What the store file can be when the process dies inside
\* Graph.serialize(destination): the library either opens the destination
\* for writing and streams into it (the file is cut to zero length, then
\* grows), or writes a temporary file and moves it onto the destination
\* (the file is as before, or a partial copy when the move is a copy).
CrashFiles(dest) == {dest, EmptyFile, MalformedFile}

\* A merge whose parses succeeded, and the process dies while it
\* serializes (it makes no step after that).
MergeCrash(fn, src, left) ==
    \E r \in {MergeResult(fn, src, store)} :
    /\ Len(mhist) < MaxMerges
    /\ mlast.status # "crashed"
    /\ r.status = "ok"
    /\ mpre' = store
    /\ store' = left
    /\ mlast' = [fn |-> fn, src |-> src, status |-> "crashed"]
    /\ mhist' = Append(mhist, [src |-> src, status |-> "crashed"])
    /\ UNCHANGED <<cacheVars, seqVars, concVars, procVars, indexVars, runVars, mstart,
                   mconcVars, fragVars>>

InitMerge ==
    /\ CacheInit /\ SeqInit /\ ConcInit /\ ProcIdle /\ IndexInit /\ RunIdle /\ FragIdle
    /\ store \in StartStores
    /\ mstart = store
    /\ mpre = store
    /\ mlast = NoMerge
    /\ mhist = <<>>
    /\ mpc = [w \in MergeWorkers |-> "idle"]
    /\ msrc = [w \in MergeWorkers |-> NoFile]
    /\ mmain = [w \in MergeWorkers |-> EmptyGraph]
    /\ mseen = [w \in MergeWorkers |-> "idle"]
    /\ mfn = [w \in MergeWorkers |-> ""]

NextMerge ==
    \/ \E fn \in MergeFns, src \in FragmentFiles : Merge(fn, src)
    \/ \E fn \in MergeFns, src \in FragmentFiles, left \in CrashFiles(store) :
           MergeCrash(fn, src, left)

SpecMerge == InitMerge /\ [][NextMerge]_vars

(***************************************************************************)
(* Claims about the merge.                                                 *)
(***************************************************************************)

\* g holds every triple of h, imports aside.
HoldsAll(g, h) == h.ground \subseteq g.ground /\ h.blank <= g.blank

\* The content of a store file: the empty graph when there is none.
Content(f) == Parse(f).graph

\* No fragment file has been handed to a merge twice.
EachOnce == \A i, j \in 1..Len(mhist) : i # j => mhist[i].src # mhist[j].src

(***************************************************************************)
(* C13  For both merge functions: when the store file is absent or of      *)
(* zero length, the merge of a parsable fragment F succeeds and the store  *)
(* holds F without its import triples afterwards.                          *)
(***************************************************************************)
C13_MergeIntoEmptyStore ==
    (/\ mlast.status \in {"ok", "raised"}
     /\ mpre.kind \in {"absent", "empty"}
     /\ mlast.src.kind = "xml")
        => /\ mlast.status = "ok"
           /\ store = Serialize(RemoveImports(mlast.src.graph))

(***************************************************************************)
(* C14  After every completed merge the store is a document without any    *)
(* owl:imports triple, whether the previous store content or the merged    *)
(* fragment had one.                                                       *)
(***************************************************************************)
C14_NoImportsAfterMerge ==
    mlast.status = "ok"
        => /\ store.kind = "xml"
           /\ store.graph.imports = {}

\* A merge completed on a store with an import and a fragment with one.
C14_Witness ==
    /\ mlast.status = "ok"
    /\ Content(mpre).imports # {}
    /\ mlast.src.graph.imports # {}
    /\ store.graph.ground # {}

(***************************************************************************)
(* C15  The write of a merge is atomic: when the process dies while the    *)
(* merge serializes its result, the store file holds the complete          *)
(* content it had before the merge.                                        *)
(***************************************************************************)
C15_CrashKeepsStore == mlast.status = "crashed" => store = mpre

(***************************************************************************)
(* C16  Merge monotonicity, as stated: when no fragment is merged twice,   *)
(* the store content after a completed merge is a strict superset of the   *)
(* content before it.                                                      *)
(***************************************************************************)
C16_StrictSuperset ==
    (mlast.status = "ok" /\ EachOnce)
        => /\ HoldsAll(store.graph, Content(mpre))
           /\ Content(mpre).imports \subseteq store.graph.imports
           /\ store.graph # Content(mpre)

(***************************************************************************)
(* C16, amended.  After a completed merge the store holds every triple it  *)
(* held before and every triple of the fragment, owl:imports triples       *)
(* aside (those are removed, the ones of the previous content included),   *)
(* and nothing else.  The store grows exactly when the fragment has a      *)
(* triple other than owl:imports that the store did not hold, or a blank   *)
(* node: a fragment merged for the first time can leave the content as it  *)
(* was.                                                                    *)
(***************************************************************************)
C16_NoTripleLost ==
    mlast.status = "ok"
        => /\ HoldsAll(store.graph, Content(mpre))
           /\ HoldsAll(store.graph, mlast.src.graph)
           /\ store.graph.ground
                  = Content(mpre).ground \cup mlast.src.graph.ground
           /\ store.graph.blank = Content(mpre).blank + mlast.src.graph.blank
           /\ (store.graph = RemoveImports(Content(mpre)))
                  = (/\ mlast.src.graph.ground \subseteq Content(mpre).ground
                     /\ mlast.src.graph.blank = 0)

\* A fragment merged for the first time into a store that held triples
\* left the content as it was.
C16_Witness ==
    /\ mlast.status = "ok"
    /\ EachOnce
    /\ Len(mhist) = MaxMerges
    /\ mpre.kind = "xml"
    /\ mlast.src.graph.ground # {}
    /\ store = mpre

(***************************************************************************)
(* C17  As stated: a fragment merged twice in a row into a store that was  *)
(* empty leaves double its triples, imports aside, in the store.           *)
(***************************************************************************)
SameTwice ==
    /\ Len(mhist) >= 2
    /\ mhist[Len(mhist)].src = mhist[Len(mhist) - 1].src
    /\ mhist[Len(mhist)].status = "ok"
    /\ mhist[Len(mhist) - 1].status = "ok"

C17_SecondMergeDoubles ==
    (SameTwice /\ Len(mhist) = 2 /\ mstart.kind \in {"absent", "empty"})
        => Count(store.graph) = 2 * Count(RemoveImports(mlast.src.graph))

(***************************************************************************)
(* C17, amended.  A fragment merged a second time right after the first    *)
(* adds no triple that has no blank node (the graph is a set of triples),  *)
(* and another copy of its triples with blank nodes (renamed by the        *)
(* parse): the store doubles only the blank-node part of the fragment.     *)
(***************************************************************************)
C17_SecondMergeAddsBlankOnly ==
    SameTwice
        => /\ store.graph.ground = Content(mpre).ground
           /\ store.graph.blank = Content(mpre).blank + mlast.src.graph.blank
           /\ (Len(mhist) = 2 /\ mstart.kind \in {"absent", "empty"})
                  => /\ store.graph.ground = mlast.src.graph.ground
                     /\ store.graph.blank = 2 * mlast.src.graph.blank

\* A fragment with both kinds of triples was merged twice into a store
\* that was absent.
C17_Witness ==
    /\ SameTwice
    /\ Len(mhist) = 2
    /\ mstart.kind = "absent"
    /\ mlast.src.graph.ground # {}
    /\ mlast.src.graph.blank > 0

(***************************************************************************)
(* C18  A merge whose store file or fragment file cannot be parsed raises  *)
(* before it writes: the store file is exactly as before.                  *)
(***************************************************************************)
C18_RaiseKeepsStore ==
    /\ mlast.status = "raised" => store = mpre
    /\ mlast.status \in {"ok", "raised"}
           => (mlast.status = "raised")
                  = (\/ ~Parse(mlast.src).ok
                     \/ ParsesStore(mlast.fn, mpre) /\ ~Parse(mpre).ok)

\* A merge raised on its fragment after the store had been parsed.
C18_Witness ==
    /\ mlast.status = "raised"
    /\ mpre.kind = "xml"
    /\ mlast.src = MalformedFile
    /\ Len(mhist) = MaxMerges

(***************************************************************************)
(* Two merges into one store file at the same time.  Neither function      *)
(* takes a lock: a merge reads the store (g_main.parse), then parses its   *)
(* fragment, unites, removes the imports and writes the store              *)
(* (g_main.serialize), and the other merge can run between the two.  The   *)
(* write is taken as one step (a reader never sees half a file).           *)
(***************************************************************************)

Other(w) == CHOOSE v \in MergeWorkers : v # w

\* The file a merge parses as the store: the file as it is at that moment.
StoreRead_Start(cur, start) == start
StoreRead(cur, start) == cur

\* Lines 52-54 (42-44): the worker reads the store into its g_main; a
\* store that cannot be parsed ends the merge.
MLoad(w) ==
    \E r \in {LoadStore(mfn[w], StoreRead(store, mstart))} :
    /\ mpc[w] = "start"
    /\ mpc' = [mpc EXCEPT ![w] = IF r.ok THEN "loaded" ELSE "raised"]
    /\ mmain' = [mmain EXCEPT ![w] = r.graph]
    /\ mseen' = [mseen EXCEPT ![w] = mpc[Other(w)]]
    /\ UNCHANGED <<cacheVars, seqVars, concVars, procVars, indexVars, runVars,
                   mergeVars, msrc, mfn, fragVars>>

\* Lines 56-66 (46-51): the worker parses its fragment, adds it to its
\* g_main, removes the imports and writes the store.
MWrite(w) ==
    \E new \in {Parse(msrc[w])} :
    /\ mpc[w] = "loaded"
    /\ mpc' = [mpc EXCEPT ![w] = IF new.ok THEN "done" ELSE "raised"]
    /\ mmain' = [mmain EXCEPT ![w] = IF new.ok
                                      THEN Merged(mmain[w], new.graph)
                                      ELSE mmain[w]]
    /\ store' = IF new.ok
                THEN Serialize(Merged(mmain[w], new.graph))
                ELSE store
    /\ mpre' = store
    /\ UNCHANGED <<cacheVars, seqVars, concVars, procVars, indexVars, runVars,
                   mstart, mlast, mhist, msrc, mseen, mfn, fragVars>>

\* Two workers, each with a merge function and a fragment file of its
\* own, about to merge into the same store.
InitMergeConc ==
    /\ CacheInit /\ SeqInit /\ ConcInit /\ ProcIdle /\ IndexInit /\ RunIdle /\ FragIdle
    /\ store \in StartStores
    /\ mstart = store
    /\ mpre = store
    /\ mlast = NoMerge
    /\ mhist = <<>>
    /\ mpc = [w \in MergeWorkers |-> "start"]
    /\ msrc \in [MergeWorkers -> FragmentFiles]
    /\ msrc["m1"] # msrc["m2"]
    /\ mmain = [w \in MergeWorkers |-> EmptyGraph]
    /\ mseen = [w \in MergeWorkers |-> "idle"]
    /\ mfn \in [MergeWorkers -> MergeFns]

NextMergeConc ==
    \/ \E w \in MergeWorkers : MLoad(w)
    \/ \E w \in MergeWorkers : MWrite(w)

SpecMergeConc == InitMergeConc /\ [][NextMergeConc]_vars

\* Both merges have completed.
BothDone == \A w \in MergeWorkers : mpc[w] = "done"

\* One merge began only when the other had ended.
Serialized == \E w \in MergeWorkers : mseen[w] = "done"

\* The store content the merges started from (nothing, when the store was
\* absent or of zero length).
StartContent == RemoveImports(Content(mstart))

(***************************************************************************)
(* C19  Two merges of different fragments into one store.  When one merge  *)
(* began only after the other had ended, the store holds the start         *)
(* content and both fragments, in either order.  When both read the store  *)
(* before either wrote, the store holds the start content and the          *)
(* fragment of one merge only: what the other wrote is lost.               *)
(***************************************************************************)
C19_SerializedKeepsBoth ==
    BothDone
        => /\ Serialized
               => store.graph
                      = Merged(Merged(StartContent, msrc["m1"].graph),
                               msrc["m2"].graph)
           /\ ~Serialized
               => \E w \in MergeWorkers :
                      store.graph = Merged(StartContent, msrc[w].graph)

\* Both merges completed without an error and the store lacks the triples
\* of one of the two fragments.
C19_Witness ==
    /\ BothDone
    /\ ~Serialized
    /\ \E w \in MergeWorkers : ~HoldsAll(store.graph, msrc[w].graph)

(***************************************************************************)
(* The graph fragments of one article: convert_semantic_analysis_article   *)
(* and convert_dima_analysis_article.  A fragment is the individuals the   *)
(* converter created, in the order of their creation, and the relations    *)
(* it set between individuals (data values such as hasId and hasText are   *)
(* left out).                                                              *)
(***************************************************************************)

\* The arguments of a motif whose only component is one of the two border
\* premises.
BorderArguments ==
    { << [premises     |-> <<t>>,
          developments |-> <<>>,
          conclusions  |-> <<>>] >> : t \in BorderTexts }

\* The argument lists an extraction may return for a motif.
FragArguments == RawArguments \cup BorderArguments

GetArgumentsFromMotifs_PerMotif(raws) ==
    [i \in 1..Len(raws) |->
        [motif_id  |-> MotifIds[i],
         arguments |-> AssignArguments(raws[i],
                           [cmap |-> FreshMaps,
                            counters |-> FreshCounters]).out]]

\* get_arguments_from_motifs, lines 63-106: the motifs in order, through
\* one set of maps and counters.
GetArgumentsFromMotifs(raws) ==
    LET Next(prev, i, a) ==
            [out |-> Append(prev.out, [motif_id  |-> MotifIds[i],
                                       arguments |-> a.out]),
             st  |-> a.st]
        F[i \in 0..Len(raws)] ==
            IF i = 0
            THEN [out |-> <<>>,
                  st  |-> [cmap |-> FreshMaps, counters |-> FreshCounters]]
            ELSE Next(F[i - 1], i, AssignArguments(raws[i], F[i - 1].st))
    IN F[Len(raws)].out

\* The narrated agents of the article: none, or one.
FragAgents ==
    {<<>>,
     <<[agent_id |-> "agent_0", name |-> "Alice",
        type |-> "NarratedAgentPerson"]>>}

\* The references a quote or a bias row may hold: ids the extraction
\* answered, which name a node of the article or do not.
ComponentRefs == {<<>>, <<"premise_0">>, <<"premise_9">>,
                  <<"premise_9", "premise_0">>}
AgentRefs     == {<<>>, <<"agent_0">>, <<"agent_9", "agent_0">>}
MentionRefs   == {<<>>, <<"agent_0">>}
ArgumentRefs  == {"argument_0", "argument_9"}

FragQuote(keys, maps, att, men) ==
    [quote_id |-> "quote_0", motif_id |-> MotifIds[1], text |-> "Q",
     type |-> "DirectQuote", status |-> "Statement",
     has_agent_keys |-> keys, attributed_to |-> att, mentions |-> men,
     maps_to_arg_components |-> maps]

\* The quotes of the article: none, or one; the one without the keys
\* attributed_to and mentions is what a failed assign_quote_agents leaves.
FragQuotes ==
    {<<>>}
    \cup {<<FragQuote(TRUE, c, a, m)>> :
              c \in ComponentRefs, a \in AgentRefs, m \in MentionRefs}
    \cup {<<FragQuote(FALSE, c, <<>>, <<>>)>> : c \in ComponentRefs}

\* The techniques of the model (memorise_logic.py, te0321).
Techniques == {"ImplicitStereotype"}

FragRow(arg, prem) ==
    [technique |-> "ImplicitStereotype", argument_id |-> arg,
     premise_ids |-> prem, development_ids |-> <<>>,
     conclusion_ids |-> <<>>]

\* The rows of one technique in article_biases_<id>.json: none, or one.
FragRows ==
    {<<>>}
    \cup {<<FragRow(a, p)>> :
              a \in ArgumentRefs,
              p \in {<<>>, <<"premise_0">>, <<"premise_9", "premise_0">>}}

\* The sequences of a sequence, one after the other.
Flatten(ss) ==
    LET F[i \in 0..Len(ss)] == IF i = 0 THEN <<>> ELSE F[i - 1] \o ss[i]
    IN F[Len(ss)]

\* Class(name): one call that creates an individual.
Call(class, name) == [class |-> class, name |-> name]

\* owlready2, Class(name): the individual of that name when the ontology
\* has one already, else a new individual.
Create_Always(nodes, c) == Append(nodes, c)
Create(nodes, c) ==
    IF \E i \in 1..Len(nodes) : nodes[i].name = c.name
    THEN nodes
    ELSE Append(nodes, c)

\* The individuals after the calls, in order.
Individuals(calls) ==
    LET F[i \in 0..Len(calls)] ==
            IF i = 0 THEN <<>> ELSE Create(F[i - 1], calls[i])
    IN F[Len(calls)]

ComponentCalls(pref, comps, class) ==
    [i \in 1..Len(comps) |-> Call(class, pref \o comps[i].id)]

\* Lines 108-132: the argument, then its premises, developments and
\* conclusions.
ArgumentCalls(pref, a) ==
    <<Call("Argument", pref \o a.argument_id)>>
    \o ComponentCalls(pref, a.premises, "Premise")
    \o ComponentCalls(pref, a.developments, "Development")
    \o ComponentCalls(pref, a.conclusions, "Conclusion")

\* Lines 101-108: the motif, then its arguments.
MotifCalls(pref, m) ==
    <<Call("Motif", pref \o m.motif_id)>>
    \o Flatten([i \in 1..Len(m.arguments) |->
                    ArgumentCalls(pref, m.arguments[i])])

\* Lines 136-137: the individual of a quote, of the class its type names.
QuoteCalls(pref, quote_list) ==
    [i \in 1..Len(quote_list) |->
        Call(quote_list[i].type, pref \o quote_list[i].quote_id)]

\* subject.property.append(object).
Edge(s, p, o) == [s |-> s, p |-> p, o |-> o]

ComponentEdges(pref, a, comps, property) ==
    {Edge(pref \o a.argument_id, property, pref \o comps[i].id) :
         i \in 1..Len(comps)}

ArgumentEdges(pref, m, a) ==
    {Edge(pref \o m.motif_id, "hasArgument", pref \o a.argument_id)}
    \cup ComponentEdges(pref, a, a.premises, "hasPremise")
    \cup ComponentEdges(pref, a, a.developments, "hasDevelopment")
    \cup ComponentEdges(pref, a, a.conclusions, "hasConclusion")

MotifEdges(pref, m) ==
    {Edge(pref \o "article", "hasMotif", pref \o m.motif_id)}
    \cup UNION {ArgumentEdges(pref, m, m.arguments[i]) :
                    i \in 1..Len(m.arguments)}

\* comp_index after the loop over the motifs: the ids of all components.
CompIndex(data) ==
    UNION {{c.id : c \in {Components(data.motifs[i].arguments)[j] :
                     j \in 1..Len(Components(data.motifs[i].arguments))}} :
               i \in 1..Len(data.motifs)}

\* agent_index: made empty at line 97 and never assigned to; the list
\* narrated_agents is not read by the converter.
AgentIndex(data) == {}

\* `if cid in comp_index`, `if aid in agent_index`, `if arg_ind:`,
\* `if comp:`: the reference names a node.
Resolves_Always(id, index) == TRUE
Resolves(id, index) == id \in index

\* The ids of a list of references that resolve.
Resolving(refs, index) ==
    {refs[i] : i \in {j \in 1..Len(refs) : Resolves(refs[j], index)}}

\* Lines 146-160: the relations of one quote.
QuoteEdges(pref, q, comp_index, agent_index) ==
    {Edge(pref \o cid, "hasQuote", pref \o q.quote_id) :
         cid \in Resolving(q.maps_to_arg_components, comp_index)}
    \cup {Edge(pref \o q.quote_id, "isAttributedTo", pref \o aid) :
              aid \in Resolving(q.attributed_to, agent_index)}
    \cup {Edge(pref \o q.quote_id, "mentionsInQuote", pref \o mid) :
              mid \in Resolving(q.mentions, agent_index)}

\* convert_semantic_analysis_article, lines 86-165: the fragment it saves;
\* q["attributed_to"] raises KeyError for a quote without the key, and
\* nothing is saved.
ConvertSemantic(data) ==
    LET pref == data.article_id \o "_" IN
    IF \E i \in 1..Len(data.quotes) : ~data.quotes[i].has_agent_keys
    THEN [status |-> "KeyError", nodes |-> <<>>, edges |-> {}]
    ELSE [status |-> "ok",
          nodes  |-> Individuals(
                         <<Call("Article", pref \o "article")>>
                         \o Flatten([i \in 1..Len(data.motifs) |->
                                         MotifCalls(pref, data.motifs[i])])
                         \o QuoteCalls(pref, data.quotes)),
          edges  |-> UNION {MotifEdges(pref, data.motifs[i]) :
                                i \in 1..Len(data.motifs)}
                     \cup UNION {QuoteEdges(pref, data.quotes[i],
                                            CompIndex(data),
                                            AgentIndex(data)) :
                                     i \in 1..Len(data.quotes)}]

\* str.lower() of a string.
RECURSIVE LowerString(_)
LowerString(s) ==
    IF Len(s) = 0
    THEN ""
    ELSE LowerChar(Char(s, 1)) \o LowerString(SubSeq(s, 2, Len(s)))

\* s.split("_")[-1]: what follows the last underscore.
LastPart(s) ==
    SubSeq(s, Last({i \in 1..Len(s) : Char(s, i) = "_"}) + 1, Len(s))

\* Line 104, tech_name.lower(), on the techniques of the model, computed
\* once.
TechLc == [tech_name \in Techniques |-> LowerString(tech_name)]

\* Line 108: f"{article_id}_{tech_lc}_{arg_num}".
TechId(article_id, row) ==
    article_id \o "_" \o TechLc[row.technique] \o "_"
    \o LastPart(row.argument_id)

\* The names of the individuals of a fragment.
Names(nodes) == {nodes[i].name : i \in 1..Len(nodes)}

\* Lines 124-126: the component references of a row.
ComponentIds(row) ==
    row.premise_ids \o row.development_ids \o row.conclusion_ids

\* Lines 106-129: the relations of one row; infl holds the individuals of
\* the article's semantic fragment.
RowEdges(article_id, row, infl) ==
    LET pref == article_id \o "_" IN
    {Edge(TechId(article_id, row), "instantiatesTechnique", row.technique)}
    \cup {Edge(pref \o aid, "usesTechnique", TechId(article_id, row)) :
              aid \in {a \in {row.argument_id} : Resolves(pref \o a, infl)}}
    \cup {Edge(pref \o cid, "usesTechnique", TechId(article_id, row)) :
              cid \in {c \in {ComponentIds(row)[j] :
                               j \in 1..Len(ComponentIds(row))} :
                          Resolves(pref \o c, infl)}}

\* convert_dima_analysis_article, lines 77-134: the TechniqueUsage
\* individuals and the usesTechnique relations it saves.
ConvertDima(article_id, rows, infl) ==
    [status |-> "ok",
     nodes  |-> Individuals([i \in 1..Len(rows) |->
                    Call("TechniqueUsage", TechId(article_id, rows[i]))]),
     edges  |-> UNION {RowEdges(article_id, rows[i], infl) :
                           i \in 1..Len(rows)}]

\* Steps 2 to 5 of run(): the ids are assigned and the article is saved.
FAssign ==
    /\ fpc = "assign"
    /\ fart' = [article_id      |-> ArticleId,
                headline        |-> "",
                motifs          |-> GetArgumentsFromMotifs(fin.motifs),
                narrated_agents |-> fin.narrated_agents,
                quotes          |-> fin.quotes]
    /\ fpc' = "semantic"
    /\ UNCHANGED <<cacheVars, seqVars, concVars, procVars, indexVars, runVars,
                   mergeVars, mconcVars, fin, frows, frag, dfrag>>

\* Step 7 of run().
FConvertSemantic ==
    \E r \in {ConvertSemantic(fart)} :
    /\ fpc = "semantic"
    /\ frag' = r
    /\ fpc' = IF r.status = "ok" THEN "dima" ELSE "aborted"
    /\ UNCHANGED <<cacheVars, seqVars, concVars, procVars, indexVars, runVars,
                   mergeVars, mconcVars, fin, fart, frows, dfrag>>

\* Step 8 of run().
FConvertDima ==
    \E r \in {ConvertDima(fart.article_id, frows, Names(frag.nodes))} :
    /\ fpc = "dima"
    /\ dfrag' = r
    /\ fpc' = "done"
    /\ UNCHANGED <<cacheVars, seqVars, concVars, procVars, indexVars, runVars,
                   mergeVars, mconcVars, fin, fart, frows, frag>>

\* What the extractions returned for the article, and its bias rows.
InitFragment ==
    /\ CacheInit /\ SeqInit /\ ConcInit /\ ProcIdle /\ IndexInit /\ RunIdle /\ MergeIdle
    /\ fin \in [motifs          : [1..NMotifs -> FragArguments],
                narrated_agents : FragAgents,
                quotes          : FragQuotes]
    /\ frows \in FragRows
    /\ fart = NoArticle
    /\ frag = NoFragment
    /\ dfrag = NoFragment
    /\ fpc = "assign"

NextFragment ==
    \/ FAssign
    \/ FConvertSemantic
    \/ FConvertDima

SpecFragment == InitFragment /\ [][NextFragment]_vars

(***************************************************************************)
(* Claims about the fragments.                                             *)
(***************************************************************************)

\* The prefix of the names of the article's individuals.
Pref == fart.article_id \o "_"

\* The converter of the semantic analysis has run.
SemanticRan == fpc \in {"dima", "done", "aborted"}

\* The ids of the narrated agents of the article.
AgentIds ==
    {fart.narrated_agents[i].agent_id : i \in 1..Len(fart.narrated_agents)}

\* The elements of a sequence.
Range(s) == {s[i] : i \in 1..Len(s)}

(***************************************************************************)
(* C11  The fragment of an article has an individual for every narrated    *)
(* agent, and for every quote an isAttributedTo (mentionsInQuote)          *)
(* relation to each agent of the article its attributed_to (mentions)      *)
(* list names.                                                             *)
(***************************************************************************)
C11_AgentsInFragment ==
    frag.status = "ok"
        => /\ \A aid \in AgentIds : Pref \o aid \in Names(frag.nodes)
           /\ \A q \in Range(fart.quotes) :
                  /\ \A aid \in Range(q.attributed_to) \cap AgentIds :
                         Edge(Pref \o q.quote_id, "isAttributedTo",
                              Pref \o aid) \in frag.edges
                  /\ \A mid \in Range(q.mentions) \cap AgentIds :
                         Edge(Pref \o q.quote_id, "mentionsInQuote",
                              Pref \o mid) \in frag.edges

(***************************************************************************)
(* C12  A reference that names no individual does not stop a converter:    *)
(* the semantic converter fails only on a quote without the keys           *)
(* attributed_to and mentions, the converter of the bias rows never; a     *)
(* fragment has no relation to or from a name that is no individual; and   *)
(* a quote's component reference, a row's argument reference and a row's   *)
(* component reference has its relation exactly when it names an           *)
(* individual of the article.  (No agent reference names an individual.)   *)
(***************************************************************************)
C12_DanglingTolerated ==
    /\ SemanticRan
           => (frag.status = "ok")
                  = (\A q \in Range(fart.quotes) : q.has_agent_keys)
    /\ frag.status = "ok"
           => /\ \A e \in frag.edges :
                     e.s \in Names(frag.nodes) /\ e.o \in Names(frag.nodes)
              /\ \A q \in Range(fart.quotes) :
                     /\ \A cid \in Range(q.maps_to_arg_components) :
                            (Pref \o cid \in Names(frag.nodes))
                                = (Edge(Pref \o cid, "hasQuote",
                                        Pref \o q.quote_id) \in frag.edges)
                     /\ \A aid \in Range(q.attributed_to) :
                            (Pref \o aid \in Names(frag.nodes))
                                = (Edge(Pref \o q.quote_id, "isAttributedTo",
                                        Pref \o aid) \in frag.edges)
                     /\ \A mid \in Range(q.mentions) :
                            (Pref \o mid \in Names(frag.nodes))
                                = (Edge(Pref \o q.quote_id, "mentionsInQuote",
                                        Pref \o mid) \in frag.edges)
    /\ fpc = "done"
           => /\ dfrag.status = "ok"
              /\ \A e \in dfrag.edges :
                     e.p = "usesTechnique"
                         => /\ e.s \in Names(frag.nodes)
                            /\ e.o \in Names(dfrag.nodes)
              /\ \A row \in Range(frows) :
                     \A id \in {row.argument_id}
                                  \cup Range(ComponentIds(row)) :
                         (Pref \o id \in Names(frag.nodes))
                             = (Edge(Pref \o id, "usesTechnique",
                                     TechId(fart.article_id, row))
                                    \in dfrag.edges)

\* Both converters have run on an article with a quote and a row that each
\* hold a reference that names a component and one that names none, and
\* with references to an argument and to an agent that name none.
C12_Witness ==
    /\ fpc = "done"
    /\ \E q \in Range(fart.quotes) :
           /\ "agent_9" \in Range(q.attributed_to)
           /\ q.maps_to_arg_components = <<"premise_9", "premise_0">>
           /\ Edge(Pref \o "premise_0", "hasQuote", Pref \o q.quote_id)
                  \in frag.edges
    /\ \E row \in Range(frows) :
           /\ row.argument_id = "argument_9"
           /\ row.premise_ids = <<"premise_9", "premise_0">>
           /\ Edge(Pref \o "premise_0", "usesTechnique",
                   TechId(fart.article_id, row)) \in dfrag.edges

(***************************************************************************)
(* C20  An article of two motifs, each with one argument whose only        *)
(* premise is "Border crossings increased sharply", once with and once     *)
(* without the full stop: both premises get the id premise_0, the          *)
(* arguments get argument_0 and argument_1, and the fragment has exactly   *)
(* one Premise individual, which both Argument individuals are related to  *)
(* by hasPremise.                                                          *)
(***************************************************************************)
BorderArticle ==
    /\ fpc # "idle"
    /\ fin.motifs[1] \in BorderArguments
    /\ fin.motifs[2] \in BorderArguments
    /\ fin.motifs[1] # fin.motifs[2]

C20_BorderPremisesShareNode ==
    BorderArticle
        => /\ fpc # "assign"
               => \A i \in 1..NMotifs :
                      /\ Len(fart.motifs[i].arguments) = 1
                      /\ fart.motifs[i].arguments[1].argument_id
                             = NewId("argument", i - 1)
                      /\ Len(fart.motifs[i].arguments[1].premises) = 1
                      /\ fart.motifs[i].arguments[1].premises[1].id
                             = "premise_0"
           /\ frag.status = "ok"
               => /\ Cardinality({k \in 1..Len(frag.nodes) :
                                     frag.nodes[k].class = "Premise"}) = 1
                  /\ Cardinality({k \in 1..Len(frag.nodes) :
                                     frag.nodes[k].name
                                         = Pref \o "premise_0"}) = 1
                  /\ \A k \in 1..Len(frag.nodes) :
                         (frag.nodes[k].class = "Premise")
                             = (frag.nodes[k].name = Pref \o "premise_0")
                  /\ \A a \in {"argument_0", "argument_1"} :
                         /\ Call("Argument", Pref \o a) \in Range(frag.nodes)
                         /\ Edge(Pref \o a, "hasPremise", Pref \o "premise_0")
                                \in frag.edges

\* The fragment of the article with the two border premises has been
\* built, the premise without the full stop in the first motif.
C20_Witness ==
    /\ BorderArticle
    /\ fin.motifs[1][1].premises[1] = "Border crossings increased sharply"
    /\ frag.status = "ok"
    /\ fpc = "done"

(***************************************************************************)
(* save_json_cache that does not finish.  open(path, "w") empties the      *)
(* file and json.dump writes the text piece by piece into it; when         *)
(* json.dump raises on the way (an object it cannot encode, a full disk)   *)
(* or the process ends there, the file keeps the text written so far.      *)
(***************************************************************************)

\* Where json.dump may stop: before its first token (the file is empty)
\* and after it (the file is a cut-off text).
CutPoints == {0, 1}

\* The text of the file when json.dump has written n tokens of obj.
PartialDump(obj, n) == SubSeq(Dump(obj), 1, n)

\* One call of load_or_compute_cache in which compute_fn returned `out` and
\* save_json_cache stopped after n tokens: the call does not return.
SaveFails(k, out, n) ==
    \E r \in {LoadOrCompute(files, k, out)} :
    /\ TotalCalls < MaxCalls
    /\ r.computed
    /\ r.status = "returned"
    /\ n < Len(Dump(out))
    /\ pre' = files
    /\ dirs' = GetCachePath(dirs, k)
    /\ files' = [files EXCEPT ![k] = PartialDump(out, n)]
    /\ nCalls' = Bump(nCalls, k)
    /\ nComputes' = Bump(nComputes, k)
    /\ nOk' = Bump(nOk, k)
    /\ rets' = rets
    /\ last' = [key |-> k, status |-> "save_failed", value |-> out,
                computed |-> TRUE]
    /\ UNCHANGED <<concVars, procVars, indexVars, runVars, graphVars>>

NextSave ==
    \/ \E k \in Keys, out \in Payloads \cup {Raise} :
           LoadOrComputeCache(k, out)
    \/ \E k \in Keys, out \in Payloads, n \in CutPoints :
           SaveFails(k, out, n)

SpecSave == InitCache /\ [][NextSave]_vars

(***************************************************************************)
(* C21  Every cache entry file that exists holds a complete JSON document, *)
(* equal to a payload that a call computed and returned, also after a      *)
(* save_json_cache that did not finish.                                    *)
(***************************************************************************)
C21_EntriesComplete ==
    \A k \in Keys :
        files[k] # Absent
            => /\ Load(files[k]) \in Payloads
               /\ files[k] = Dump(Load(files[k]))
               /\ Load(files[k]) \in rets[k] \cup {last.value}

(***************************************************************************)
(* C22  Cache entries are immutable: an entry that existed before a call   *)
(* of load_or_compute_cache (on its key or on another) has the same        *)
(* content after it.                                                       *)
(***************************************************************************)
C22_EntriesImmutable ==
    \A k \in Keys : pre[k] # Absent => files[k] = pre[k]

(***************************************************************************)
(* C26  A call on an entry file that exists and is no JSON document        *)
(* raises, does not call compute_fn and leaves every file as it was (so    *)
(* the next call on the key finds the same file and does the same); no     *)
(* other call raises that error.                                           *)
(***************************************************************************)
C26_CorruptEntryIsFatal ==
    last.status # "none"
        => /\ (pre[last.key] # Absent /\ Load(pre[last.key]) = DecodeError)
                  = (last.status = "decode_error")
           /\ last.status = "decode_error"
                  => /\ ~last.computed
                     /\ files = pre
                     /\ nComputes[last.key] < nCalls[last.key]

\* After a save that stopped inside the text, every later call on the key
\* has raised.
C26_Witness ==
    /\ last.status = "decode_error"
    /\ nCalls[last.key] = MaxCalls
    /\ nComputes[last.key] = 1
    /\ Len(files[last.key]) > 0

(***************************************************************************)
(* C30  After any sequence of assign_component_id calls of one run, for    *)
(* each kind: as many texts are recorded as the kind's counter says; the   *)
(* i-th recorded text has the id kind_(i-1), so the recorded ids are       *)
(* kind_0 ... kind_(n-1), each for one text; and no recorded text is       *)
(* similar to a text recorded before it.                                   *)
(***************************************************************************)
C30_MapMatchesCounter ==
    \A k \in Kinds :
        /\ Len(cmap[k]) = counters[k]
        /\ \A i \in 1..Len(cmap[k]) : cmap[k][i].id = k \o "_" \o ToString(i - 1)
        /\ \A i, j \in 1..Len(cmap[k]) :
               i < j => /\ cmap[k][i].text # cmap[k][j].text
                        /\ cmap[k][i].id # cmap[k][j].id
                        /\ ~Similar(cmap[k][j].text, cmap[k][i].text)

\* Two texts are recorded for a kind, one for another kind, and a call
\* returned the id of a recorded text.
C30_Witness ==
    /\ Len(hist) = MaxAssign
    /\ \E i \in 1..Len(hist) : ~hist[i].minted
    /\ \E k \in Kinds :
           /\ Len(cmap[k]) = 2
           /\ \E k2 \in Kinds \ {k} : Len(cmap[k2]) = 1


(***************************************************************************)
(* One process: DimaOTK objects are constructed and run() is called on     *)
(* several articles, as run_articles_mode does (cli.py, lines 89-108).     *)
(* The specification follows the article id, the arguments entries of the  *)
(* cache and the ontology files; the agents, quotes and technique          *)
(* extractions return nothing here (they are followed in SpecRun and       *)
(* SpecFragment).                                                          *)
(***************************************************************************)

\* Bound on the constructions and runs of one behaviour.
MaxSteps == 4

\* get_article_id's defaults: sample_size and length.
SampleSize == 100
IdLength   == 10

\* The first hundred characters two of the articles share.
Lead == "The council met on Monday to debate the new budget, and " \o
        "the session lasted until late in the evening. "

\* The article texts handed to run(): two that differ only after their
\* first SampleSize characters, and a third, short one.
ArticleTexts == {Lead \o "Taxes will rise.",
                 Lead \o "Taxes will fall.",
                 "The sky is blue."}

\* text[:sample_size].
Snippet(text) ==
    SubSeq(text, 1, IF Len(text) < SampleSize THEN Len(text) ELSE SampleSize)

\* hashlib.sha256(snippet).hexdigest()[:length]: the digest is not computed
\* here; every snippet of the model has a digest of its own (no collision
\* of the truncated hash), written as IdLength hexadecimal digits.
HexDigest(snippet) ==
    IF snippet = Snippet(Lead) THEN "5d41402abc" ELSE "7d793037a0"

\* get_article_id(text).
GetArticleId(text) == HexDigest(Snippet(text))

ProcIds == {GetArticleId(t) : t \in ArticleTexts}

\* The arguments entry of motif i of the article id.
ProcArgumentsKey(id, i) == <<"arguments_cache", id \o "-" \o MotifIds[i]>>
ProcKeys == {ProcArgumentsKey(id, i) : id \in ProcIds, i \in 1..NMotifs}

\* The argument lists the arguments entries hold: one argument, or two.
ProcArguments ==
    { << [premises     |-> <<"The sky is blue.">>,
          developments |-> <<>>,
          conclusions  |-> <<"The economy is strong.">>] >>,
      << [premises     |-> <<"The sky is blue.">>,
          developments |-> <<>>,
          conclusions  |-> <<>>],
         [premises     |-> <<"The economy is strong.">>,
          developments |-> <<>>,
          conclusions  |-> <<"the SKY is blue">>] >> }

\* The triples of ontologies/influence-mini.ttl and of
\* ontologies/dima-bias.ttl: the schema terms.
InflTBox == [imports |-> {}, ground |-> {"influence-mini"}, blank |-> 0]
DimaTBox == [imports |-> {}, ground |-> {"dima-bias"}, blank |-> 0]
SchemaTerms == InflTBox.ground \cup DimaTBox.ground

\* world.get_ontology(IRI).load(): the document PREDEFINED_ONTOLOGIES names
\* for the Influence-Mini IRI.
LoadInfl_TBox(predef, tmp) == InflTBox
LoadInfl(predef, tmp) ==
    IF predef = "tbox" THEN InflTBox ELSE Parse(tmp[predef]).graph

\* DimaOTK(): clean_flat_ontology_files empties both flat files,
\* influencemini_initialize_tbox writes the schema to tbox.owl and to
\* influence-mini_full.owl and points the IRI at tbox.owl, and
\* dima_initialize_tbox finds dima_full.owl present and leaves it empty.
Construct ==
    /\ psteps < MaxSteps
    /\ psteps' = psteps + 1
    /\ pfull' = Serialize(InflTBox)
    /\ pdima' = EmptyFile
    /\ ppredef' = "tbox"
    /\ UNCHANGED <<cacheVars, seqVars, concVars, indexVars, runVars,
                   graphVars, ptmp, phist>>

\* Step 2 of run(): the arguments entries of the article, motif after
\* motif; process_arguments raises NameError when an entry is missing.
ProcLoads(id) ==
    [i \in 1..NMotifs |-> LoadOrCompute(files, ProcArgumentsKey(id, i), Raise)]

\* Steps 7 and 8 of run() on the processed article data: the temporary
\* ABox is the loaded ontology with the article's individuals added; it is
\* merged into influence-mini_full.owl; the DIMA document (no technique
\* rows) is merged into both flat files; the IRI is left pointing at the
\* article's temporary ABox.
Convert(data) ==
    LET own   == Names(ConvertSemantic(data).nodes)
        Saved(loaded) == [loaded EXCEPT !.ground = @ \cup own]
        Return(abox, m1) ==
            [own   |-> own,
             abox  |-> abox,
             full  |-> MergeResult("_append_flat", Serialize(DimaTBox),
                                   m1.file).file,
             dima  |-> MergeResult("_append_flat", Serialize(DimaTBox),
                                   pdima).file]
        Merge1(abox) ==
            Return(abox, MergeResult("append_to_rdf_file", abox, pfull))
    IN Merge1(Serialize(Saved(LoadInfl(ppredef, ptmp))))

\* One run() call that gets through step 2.
RunRecord(text, id, data, c) ==
    [text |-> text, article_id |-> id, status |-> "ok",
     keys |-> {ProcArgumentsKey(id, i) : i \in 1..NMotifs},
     motifs |-> data.motifs, own |-> c.own,
     frag |-> c.abox.graph.ground \ SchemaTerms]

\* One run() call that ends with the NameError of process_arguments.
AbortedRecord(text, id) ==
    [text |-> text, article_id |-> id, status |-> "NameError",
     keys |-> {ProcArgumentsKey(id, i) : i \in 1..NMotifs},
     motifs |-> <<>>, own |-> {}, frag |-> {}]

\* DimaOTK.run(text), from its first line to its last.
Run(text) ==
    \E id \in {GetArticleId(text)} :
    \E loads \in {ProcLoads(id)} :
    /\ ppredef # ""
    /\ psteps < MaxSteps
    /\ psteps' = psteps + 1
    /\ dirs' = GetCachePath(dirs, ProcArgumentsKey(id, 1))
    /\ IF \E i \in 1..NMotifs : loads[i].status # "returned"
       THEN /\ phist' = Append(phist, AbortedRecord(text, id))
            /\ UNCHANGED <<ppredef, ptmp, pfull, pdima>>
       ELSE \E data \in {[article_id      |-> id,
                          headline        |-> "",
                          motifs          |-> GetArgumentsFromMotifs(
                                                  [i \in 1..NMotifs |->
                                                      Value(loads[i].value)]),
                          narrated_agents |-> <<>>,
                          quotes          |-> <<>>]} :
            \E c \in {Convert(data)} :
            /\ phist' = Append(phist, RunRecord(text, id, data, c))
            /\ ptmp' = [ptmp EXCEPT ![id] = c.abox]
            /\ pfull' = c.full
            /\ pdima' = c.dima
            /\ ppredef' = id
    /\ UNCHANGED <<files, seqVars, concVars, indexVars, runVars, graphVars>>

\* The process starts in a fresh working directory, with the arguments
\* entries earlier processes have left in the cache.
InitProcess ==
    /\ files \in [ProcKeys -> {Absent} \cup
                                  {Dump(DictOf(a)) : a \in ProcArguments}]
    /\ dirs = {}
    /\ SeqInit /\ ConcInit /\ IndexInit /\ RunIdle /\ GraphIdle
    /\ ppredef = ""
    /\ ptmp = [id \in ProcIds |-> NoFile]
    /\ pfull = NoFile
    /\ pdima = NoFile
    /\ phist = <<>>
    /\ psteps = 0

NextProcess ==
    \/ Construct
    \/ \E text \in ArticleTexts : Run(text)

SpecProcess == InitProcess /\ [][NextProcess]_vars


(***************************************************************************)
(* Claims about the runs of one process.                                   *)
(***************************************************************************)

\* The run() calls that got through to the end.
Completed == {i \in 1..Len(phist) : phist[i].status = "ok"}

(***************************************************************************)
(* C23  Whatever articles run() has processed in one process, the          *)
(* fragment written for an article holds, besides the schema terms, only   *)
(* individuals whose names start with that article's id: none that was     *)
(* created for an article processed before.                                *)
(***************************************************************************)
C23_FragmentOwnPrefix ==
    \A i \in Completed :
        \A name \in phist[i].frag :
            IsPrefix(phist[i].article_id \o "_", name)

(***************************************************************************)
(* C24  Two different article texts get different ids from                 *)
(* get_article_id, so the individuals of their fragments and the cache     *)
(* keys of their stages are disjoint.                                      *)
(***************************************************************************)
C24_DistinctTextsDistinctIds ==
    \A i, j \in 1..Len(phist) :
        phist[i].text # phist[j].text
        => /\ phist[i].article_id # phist[j].article_id
           /\ phist[i].keys \cap phist[j].keys = {}
           /\ phist[i].own \cap phist[j].own = {}

(***************************************************************************)
(* C25  The individuals merged into influence-mini_full.owl for an         *)
(* article stay in it: they are still there after every later DimaOTK      *)
(* construction and every later run.                                       *)
(***************************************************************************)
C25_StoreKeepsMerged ==
    \A i \in Completed : phist[i].own \subseteq Parse(pfull).graph.ground

\* The argument ids of a run, motif after motif, each motif's in the order
\* of extraction.
ArgumentIds(motifs) ==
    Flatten([m \in 1..Len(motifs) |->
                [n \in 1..Len(motifs[m].arguments) |->
                    motifs[m].arguments[n].argument_id]])

(***************************************************************************)
(* C27  In every run the arguments of all motifs together are numbered     *)
(* argument_0, argument_1, ... in motif order, then extraction order: no   *)
(* two arguments of the article share an id, none belongs to two motifs,   *)
(* and the numbering starts again at argument_0 in the next run.           *)
(***************************************************************************)
C27_ArgumentIdsPerArticle ==
    \A i \in Completed :
        \E ids \in {ArgumentIds(phist[i].motifs)} :
            /\ \A n \in 1..Len(ids) : ids[n] = "argument_" \o ToString(n - 1)
            /\ \A m, n \in 1..Len(ids) : m # n => ids[m] # ids[n]
            /\ \A m \in 1..Len(phist[i].motifs) :
                   phist[i].motifs[m].motif_id = MotifIds[m]

\* Two articles have been run one after the other; the first has three
\* arguments over its two motifs, two of them in one motif, and the second
\* has arguments too.
C27_Witness ==
    \E i, j \in Completed :
        /\ i < j
        /\ phist[i].article_id # phist[j].article_id
        /\ Len(ArgumentIds(phist[i].motifs)) = 3
        /\ Len(phist[i].motifs[1].arguments) = 2
        /\ Len(ArgumentIds(phist[j].motifs)) >= 2


(***************************************************************************)
(* Claims about the runs of one article, continued.                        *)
(***************************************************************************)

\* The entry of the key k holds what a failed extraction left: the
\* headline "Untitled Article", no agents, no quotes, or the empty
\* technique result.
Degraded(k) ==
    /\ files[k] # Absent
    /\ \/ k = HeadlineKey /\ Value(Load(files[k])) = "Untitled Article"
       \/ k = AgentsKey /\ Value(Load(files[k])) = <<>>
       \/ \E i \in 1..NMotifs :
              k = QuotesKey(i) /\ Value(Load(files[k])) = <<>>
       \/ \E i \in 1..NMotifs :
              k = TechniqueKey(i) /\ Value(Load(files[k])).json = "dict"

(***************************************************************************)
(* C28  A failed extraction is not made again, in the run it failed in or  *)
(* in a later run: the step in which a call fails writes the degraded      *)
(* result to the unit's cache entry, an entry that exists is never         *)
(* written again, and a step makes external calls only for a unit that     *)
(* has no entry, so later runs get the degraded result from the cache.     *)
(***************************************************************************)
C28_FailedCallNotRetried ==
    [][/\ \A k \in RunKeys : files[k] # Absent => files'[k] = files[k]
       /\ ext' > ext =>
              \E k \in RunKeys : files[k] = Absent /\ files'[k] # Absent
       /\ (failed' /\ ~failed) =>
              \E k \in RunKeys : files[k] = Absent /\ files'[k] # Absent]_vars

\* A later run has gone through all its stages without one external call,
\* on entries of which some hold the degraded result of a failed call of
\* an earlier run.
C28_Witness ==
    /\ run >= 2
    /\ rpc = "done"
    /\ ext = 0
    /\ ~failed
    /\ Degraded(AgentsKey)
    /\ Degraded(TechniqueKey(1))
    /\ ~Degraded(TechniqueKey(2))


(***************************************************************************)
(* C29  Every quote get_quotes_for_article returns carries quote_id,       *)
(* motif_id, attributed_to, mentions and maps_to_arg_components, whether   *)
(* or not a sub-step of the quote extraction failed, and the quote ids     *)
(* are quote_0, quote_1, ... in motif order, without duplicates.           *)
(***************************************************************************)
C29_QuotesCarryAllFields ==
    \A i \in 1..Len(quotes) :
        /\ quotes[i].has_agent_keys
        /\ quotes[i].quote_id = "quote_" \o ToString(i - 1)
        /\ \E m \in 1..NMotifs : quotes[i].motif_id = MotifIds[m]
        /\ \A j \in 1..Len(quotes) :
               i < j => \E m, n \in 1..NMotifs :
                            /\ m <= n
                            /\ quotes[i].motif_id = MotifIds[m]
                            /\ quotes[j].motif_id = MotifIds[n]

====
